---- MODULE Spec2Model ----
(***************************************************************************)
(* RentalTrack: the rent ledger of src/db/database.ts (tenants, payments,  *)
(* payment_cancellations, settings on one shared SQLite handle), its       *)
(* payment allocator (recordPayment), payment reversal (cancelPayment),    *)
(* status classifier and reconciliation sweep (runSystemHeartbeat).        *)
(*                                                                         *)
(* Dates.  A date string 'yyyy-MM-dd' is the number of the day counted     *)
(* from 2024-01-01 (day 0).  A JavaScript Date is an instant counted in    *)
(* units of 1/UnitsPerDay day of local time: parseISO maps a date string   *)
(* to local midnight of that day, format(.., 'yyyy-MM-dd') drops the time  *)
(* of day again.  Money is counted in whole units.                         *)
(***************************************************************************)
EXTENDS Integers, Sequences, FiniteSets, TLC

(***************************************************************************)
(* Bounds of the model.                                                    *)
(***************************************************************************)
MaxTenants == 2
MaxPayments == 2
MaxTicks == 2
MaxAmount == 3
MaxEdits == 1
MaxTenantsConc == 1
MaxRaces == 1

UnitsPerDay == 2
BaseYear == 2024
LastYear == 2030

(***************************************************************************)
(* Calendar (date-fns works on the proleptic Gregorian calendar).          *)
(***************************************************************************)
IsLeap(y) == (y % 4 = 0 /\ y % 100 # 0) \/ y % 400 = 0

DaysInMonth(y, m) ==
  IF m = 2 THEN (IF IsLeap(y) THEN 29 ELSE 28)
  ELSE IF m \in {4, 6, 9, 11} THEN 30 ELSE 31

DaysInYear(y) == IF IsLeap(y) THEN 366 ELSE 365

RECURSIVE DaysBeforeYear(_)
DaysBeforeYear(y) ==
  IF y <= BaseYear THEN 0 ELSE DaysBeforeYear(y - 1) + DaysInYear(y - 1)

RECURSIVE DaysBeforeMonth(_, _)
DaysBeforeMonth(y, m) ==
  IF m <= 1 THEN 0 ELSE DaysBeforeMonth(y, m - 1) + DaysInMonth(y, m - 1)

\* the day number of the calendar date y-m-d
YMD(y, m, d) == DaysBeforeYear(y) + DaysBeforeMonth(y, m) + (d - 1)

YearOf(n) ==
  CHOOSE y \in BaseYear..LastYear :
    DaysBeforeYear(y) <= n /\ n < DaysBeforeYear(y) + DaysInYear(y)

\* the month of day r (from 0) of the year y
MonthInYear(y, r) ==
  CHOOSE m \in 1..12 :
    DaysBeforeMonth(y, m) <= r /\ r < DaysBeforeMonth(y, m) + DaysInMonth(y, m)

\* the calendar date of day r (from 0) of the year y
DateInYear(y, r, m) == [y |-> y, m |-> m, d |-> r - DaysBeforeMonth(y, m) + 1]

DayInYear(y, r) == DateInYear(y, r, MonthInYear(y, r))

DayOfYear(y, n) == DayInYear(y, n - DaysBeforeYear(y))

\* the calendar date of the day number n
Civil(n) == DayOfYear(YearOf(n), n)

Min(a, b) == IF a <= b THEN a ELSE b
Max(a, b) == IF a >= b THEN a ELSE b

\* Math.ceil(a / b) for b > 0
CeilDiv(a, b) == -((-a) \div b)

\* parseISO('yyyy-MM-dd'): local midnight of that day
parseISO(s) == s * UnitsPerDay

\* format(date, 'yyyy-MM-dd'): the local calendar day of the instant
format(t) == t \div UnitsPerDay

\* date.setHours(0, 0, 0, 0)
StartOfDay(t) == (t \div UnitsPerDay) * UnitsPerDay

\* date-fns addDays: same time of day, n days later
addDays(t, n) == t + n * UnitsPerDay

\* a day d past the end of month m runs on into the following month
SpillDay(y, m, d, tod) == YMD(y, m, d) * UnitsPerDay + tod

\* the last day of month m of year y when that month has no day d
ClampDay(y, m, d, tod) == YMD(y, m, Min(d, DaysInMonth(y, m))) * UnitsPerDay + tod

\* month m0 (from 0, possibly beyond 11) of year y, carried into the years
CarryMonth(y, m0, d, tod) == ClampDay(y + (m0 \div 12), (m0 % 12) + 1, d, tod)

ShiftMonths(c, n, tod) == CarryMonth(c.y, (c.m - 1) + n, c.d, tod)

\* date-fns addMonths: same day of month n months later, clamped to the last
\* day of the target month; the time of day is kept
addMonths(t, n) == ShiftMonths(Civil(t \div UnitsPerDay), n, t % UnitsPerDay)

calculateNextDueDate(baseDate, rentCycle) ==
  CASE rentCycle = "monthly"   -> addMonths(baseDate, 1)
    [] rentCycle = "biweekly"  -> addDays(baseDate, 14)
    [] rentCycle = "quarterly" -> addMonths(baseDate, 3)
    [] OTHER                   -> addMonths(baseDate, 1)

\* the cycle-advance loop: n applications of calculateNextDueDate
RECURSIVE AdvanceCycles(_, _, _)
AdvanceCycles(t, rentCycle, n) ==
  IF n <= 0 THEN t
  ELSE AdvanceCycles(calculateNextDueDate(t, rentCycle), rentCycle, n - 1)


(***************************************************************************)
(* Status classifier.                                                      *)
(***************************************************************************)
\* a missing next_due_date (null or ''), and one that parseISO cannot parse
NoDate == -1
BadDate == -2

PaidLeadDays == 3

\* a classifier that takes a due date PaidLeadDays days away for Paid
PaidFromLeadDays(nextDueDate, hasPayments, currentDate) ==
  IF nextDueDate \in {NoDate, BadDate} \/ ~hasPayments
       \/ nextDueDate - format(currentDate) < PaidLeadDays
    THEN "Overdue"
    ELSE "Paid"

calculateTenantStatus(nextDueDate, hasPayments, currentDate) ==
  LET today == StartOfDay(currentDate) IN
  IF nextDueDate = NoDate
    THEN (IF hasPayments THEN "Due Soon" ELSE "Overdue")
  ELSE IF nextDueDate = BadDate
    \* parseISO gives an Invalid Date: daysUntilDue is NaN, every comparison
    \* with it is false
    THEN "Overdue"
  ELSE
    LET dueDate      == StartOfDay(parseISO(nextDueDate))
        daysUntilDue == CeilDiv(dueDate - today, UnitsPerDay)
    IN IF ~hasPayments
         THEN (IF daysUntilDue >= 0 THEN "Due Soon" ELSE "Overdue")
       ELSE IF daysUntilDue > PaidLeadDays THEN "Paid"
       ELSE IF daysUntilDue >= 0 THEN "Due Soon"
       ELSE "Overdue"

(***************************************************************************)
(* The store: the tables of the one SQLite handle, as one value, so that   *)
(* BEGIN can keep what ROLLBACK restores.                                  *)
(*   tenants   tenant_id  -> row                                           *)
(*   payments  payment_id -> row                                           *)
(*   payment_cancellations, reminders: rows in insertion order             *)
(*   seqTenants, seqPayments: the AUTOINCREMENT counters (sqlite_sequence) *)
(***************************************************************************)
DefaultAutoSuspendDays == 30
DefaultReminderDaysBeforeDue == 3

EmptyFn == [x \in {} |-> 0]

EmptyDb ==
  [ tenants               |-> EmptyFn,
    payments              |-> EmptyFn,
    payment_cancellations |-> << >>,
    reminders             |-> << >>,
    settings              |-> [ auto_suspend_days        |-> DefaultAutoSuspendDays,
                                reminder_days_before_due |-> DefaultReminderDaysBeforeDue,
                                notification_enabled     |-> TRUE ],
    seqTenants            |-> 0,
    seqPayments           |-> 0 ]

\* f with key k bound to v (INSERT of a new row, or UPDATE of a row)
Put(f, k, v) == [x \in (DOMAIN f) \cup {k} |-> IF x = k THEN v ELSE f[x]]

\* f without key k (DELETE)
Drop(f, k) == [x \in (DOMAIN f) \ {k} |-> f[x]]

\* SELECT ... FROM payments WHERE tenant_id = ?
PaymentsOf(d, tenantId) ==
  {i \in DOMAIN d.payments : d.payments[i].tenant_id = tenantId}

\* ... ORDER BY next_due_date DESC, payment_id DESC LIMIT 1 over the rows ids
FirstByDueDate(d, ids) ==
  CHOOSE i \in ids : \A j \in ids :
    \/ d.payments[j].next_due_date < d.payments[i].next_due_date
    \/ (d.payments[j].next_due_date = d.payments[i].next_due_date /\ j <= i)

\* ... ORDER BY payment_date DESC, payment_id DESC LIMIT 1 over the rows ids
FirstByPaymentDate(d, ids) ==
  CHOOSE i \in ids : \A j \in ids :
    \/ d.payments[j].payment_date < d.payments[i].payment_date
    \/ (d.payments[j].payment_date = d.payments[i].payment_date /\ j <= i)

\* getTenantNextDueDate for a tenant of the store
getTenantNextDueDate(d, tenantId) ==
  LET tenant == d.tenants[tenantId]
      ids    == PaymentsOf(d, tenantId)
  IN IF ids # {}
       THEN d.payments[FirstByDueDate(d, ids)].next_due_date
       ELSE format(calculateNextDueDate(parseISO(tenant.start_date), tenant.rent_cycle))

\* SELECT 1 FROM tenants WHERE room_number = ? [AND tenant_id != ?]
checkRoomExists(d, roomNumber, excludeTenantId) ==
  \E t \in DOMAIN d.tenants :
    /\ d.tenants[t].room_number = roomNumber
    /\ (excludeTenantId # 0 => t # excludeTenantId)

(***************************************************************************)
(* Inputs of the operations.                                               *)
(***************************************************************************)
Tasks == {1, 2}
SeqTasks == {1}

TenantIds == 1..MaxTenants
PaymentIds == 1..MaxPayments
Amounts == 1..MaxAmount
PaymentDates == {YMD(2024, 3, 15)}
Today0 == YMD(2024, 3, 16)

\* addTenant's arguments: a tenant 30 days overdue at Today0, one due the
\* day after Today0, one due in the following month, and a rent of 0
AddInputs ==
  { [room_number |-> "A", start_date |-> YMD(2024, 1, 15), monthly_rent |-> 2,
     rent_cycle |-> "monthly"],
    [room_number |-> "A", start_date |-> YMD(2024, 3, 3), monthly_rent |-> 2,
     rent_cycle |-> "biweekly"],
    [room_number |-> "B", start_date |-> YMD(2024, 3, 3), monthly_rent |-> 3,
     rent_cycle |-> "monthly"],
    [room_number |-> "B", start_date |-> YMD(2024, 1, 15), monthly_rent |-> 0,
     rent_cycle |-> "monthly"] }

\* updateTenant's arguments: room A, and a rent lower than those of AddInputs
EditInputs ==
  { [room_number |-> "A", start_date |-> YMD(2024, 1, 15), monthly_rent |-> 1,
     rent_cycle |-> "monthly"] }

(***************************************************************************)
(* State.                                                                  *)
(*   db     the tables as the shared handle sees them                      *)
(*   snap   the tables as they were at the BEGIN of the open transaction   *)
(*          (EmptyDb when none is open)                                    *)
(*   inTxn  whether the handle has a transaction open                      *)
(*   now    the clock (new Date())                                         *)
(*   pc     where each asynchronous call of recordPayment / cancelPayment  *)
(*          stands (the awaits are the points where calls interleave)      *)
(*   loc    the local variables of that call                               *)
(*   hist   what the last completed operation did (history variable)       *)
(*   epi    the calls in flight together since the store was last at rest  *)
(*          and the store as it was then (history variable)                *)
(*   races  how many times a call began while another was in flight        *)
(*   edits  the number of updateTenant calls so far (bounded by MaxEdits)  *)
(***************************************************************************)
VARIABLES db, snap, inTxn, now, pc, loc, hist, epi, edits, races

vars == <<db, snap, inTxn, now, pc, loc, hist, epi, edits, races>>

NoLoc == [op |-> "none"]

NoHist ==
  [ op        |-> "none",   \* the operation
    ok        |-> TRUE,     \* it returned normally (FALSE: it threw)
    began     |-> FALSE,    \* its BEGIN TRANSACTION succeeded
    tid       |-> 0,        \* the tenant it was about
    pid       |-> 0,        \* the payment it wrote or was asked to cancel
    amount    |-> 0,        \* amount_paid
    wasLast   |-> TRUE,     \* cancelPayment: the payment was the most recent
    before    |-> NoLoc,    \* the tenant row before the operation
    dueBefore |-> NoDate,   \* getTenantNextDueDate before the operation
    same      |-> TRUE,     \* the ledger tables are as when the call began
    writes    |-> 0,        \* UPDATE statements a sweep executed
    again     |-> FALSE,    \* the sweep ran right after another sweep
    recorded  |-> NoLoc,    \* cancelPayment right after the recordPayment of
                            \* the same payment: what that recordPayment did
    warned    |-> FALSE,    \* recordPayment: the reminder update failed
    conflict  |-> FALSE,    \* addTenant / updateTenant: the room was in use
                            \* (by another tenant) when the call began and
                            \* still when it came to write
    raced     |-> FALSE,    \* ... the room was free at the check of the call
                            \* and taken when it came to write
    serial    |-> TRUE ]    \* the calls in flight together left a serial outcome

NoEpi == [base |-> EmptyDb, calls |-> << >>]

Quiescent == \A q \in Tasks : pc[q] = "idle"

\* the ledger tables (the reminders belong to the Reminder Gateway)
Ledger(d) ==
  [ tenants |-> d.tenants, payments |-> d.payments,
    payment_cancellations |-> d.payment_cancellations ]

Init ==
  /\ db = EmptyDb
  /\ snap = EmptyDb
  /\ inTxn = FALSE
  /\ now = parseISO(Today0)
  /\ pc = [q \in Tasks |-> "idle"]
  /\ loc = [q \in Tasks |-> NoLoc]
  /\ hist = NoHist
  /\ epi = NoEpi
  /\ edits = 0
  /\ races = 0

(***************************************************************************)
(* Time passes.                                                            *)
(***************************************************************************)
Tick ==
  /\ Quiescent
  /\ now < parseISO(Today0) + MaxTicks
  /\ now' = now + 1
  /\ hist' = [NoHist EXCEPT !.op = "tick"]
  /\ UNCHANGED <<db, snap, inTxn, pc, loc, epi, edits, races>>

(***************************************************************************)
(* Reminder Gateway (services/notifications.ts), on the same store.        *)
(***************************************************************************)
\* cancelReminders: UPDATE reminders SET status = 'Cancelled' WHERE
\* tenant_id = ? AND status = 'Pending'
cancelReminders(rs, tenantId) ==
  [i \in 1..Len(rs) |->
     IF rs[i].tenant_id = tenantId /\ rs[i].status = "Pending"
       THEN [rs[i] EXCEPT !.status = "Cancelled"] ELSE rs[i]]

\* createReminder: nothing when notifications are off or the reminder date
\* (reminder_days_before_due days before the due date, at reminder_time, a
\* time after midnight) is already past; else INSERT INTO reminders
createReminder(d, tenantId, dueDate, clock) ==
  LET reminderDay == addDays(parseISO(dueDate), -d.settings.reminder_days_before_due)
  IN IF ~d.settings.notification_enabled \/ reminderDay < clock
       THEN d.reminders
       ELSE Append(d.reminders,
                   [tenant_id |-> tenantId, due_date |-> dueDate, status |-> "Pending"])

(***************************************************************************)
(* Tenant registry: addTenant, updateTenant, resetCreditBalance.  None of   *)
(* them opens a transaction.                                               *)
(***************************************************************************)
AddTenant(roomNumber, startDate, monthlyRent, rentCycle, gatewayOk) ==
  /\ Quiescent
  /\ db.seqTenants < MaxTenants
  /\ IF checkRoomExists(db, roomNumber, 0) \/ monthlyRent <= 0
       THEN \* RoomAlreadyExistsError, or "Monthly rent must be greater than 0"
            /\ hist' = [NoHist EXCEPT !.op = "addTenant", !.ok = FALSE]
            /\ UNCHANGED db
       ELSE LET firstDueDateStr == format(calculateNextDueDate(parseISO(startDate), rentCycle))
                initialStatus   == calculateTenantStatus(firstDueDateStr, FALSE, now)
                tenantId        == db.seqTenants + 1
                row == [ room_number    |-> roomNumber,
                         start_date     |-> startDate,
                         monthly_rent   |-> monthlyRent,
                         rent_cycle     |-> rentCycle,
                         status         |-> initialStatus,
                         credit_balance |-> 0 ]
                d1  == [db EXCEPT !.tenants = Put(@, tenantId, row),
                                  !.seqTenants = tenantId]
            IN /\ db' = IF gatewayOk
                          THEN [d1 EXCEPT !.reminders =
                                  createReminder(d1, tenantId, firstDueDateStr, now)]
                          ELSE d1
               /\ hist' = [NoHist EXCEPT !.op = "addTenant", !.tid = tenantId]
  /\ UNCHANGED <<snap, inTxn, now, pc, loc, epi, edits, races>>

UpdateTenant(tenantId, roomNumber, startDate, monthlyRent, rentCycle) ==
  /\ Quiescent
  /\ edits < MaxEdits
  /\ edits' = edits + 1
  /\ IF checkRoomExists(db, roomNumber, tenantId)
       THEN /\ hist' = [NoHist EXCEPT !.op = "updateTenant", !.ok = FALSE,
                                          !.tid = tenantId]
            /\ UNCHANGED db
       ELSE /\ db' = IF tenantId \in DOMAIN db.tenants
                       THEN [db EXCEPT !.tenants[tenantId] =
                               [@ EXCEPT !.room_number  = roomNumber,
                                         !.start_date   = startDate,
                                         !.monthly_rent = monthlyRent,
                                         !.rent_cycle   = rentCycle]]
                       ELSE db
            /\ hist' = [NoHist EXCEPT !.op = "updateTenant", !.tid = tenantId]
  /\ UNCHANGED <<snap, inTxn, now, pc, loc, epi, races>>

ResetCreditBalance(tenantId) ==
  /\ Quiescent
  /\ db' = IF tenantId \in DOMAIN db.tenants
             THEN [db EXCEPT !.tenants[tenantId].credit_balance = 0]
             ELSE db
  /\ hist' = [NoHist EXCEPT !.op = "resetCreditBalance", !.tid = tenantId]
  /\ UNCHANGED <<snap, inTxn, now, pc, loc, epi, edits, races>>

(***************************************************************************)
(* addTenant and updateTenant as they run when calls interleave: the room  *)
(* check (a SELECT) and the write are separated by an await.  deleteTenant. *)
(***************************************************************************)
\* roomNumber.trim(), for the room numbers of RegistryInputs
Trim(roomNumber) == IF roomNumber = " A" THEN "A" ELSE roomNumber

\* a table without the UNIQUE constraint on room_number
NoUniqueIndex(d, roomNumber, tenantId) == FALSE

\* room_number TEXT NOT NULL UNIQUE: the INSERT, or the UPDATE of row
\* tenantId, would give two rows the same room_number
UniqueRoomViolated(d, roomNumber, tenantId) ==
  \E t \in DOMAIN d.tenants :
    t # tenantId /\ d.tenants[t].room_number = roomNumber

\* INSERT INTO tenants (...), then createReminder for the first due date
InsertTenant(d, roomNumber, startDate, monthlyRent, rentCycle, clock) ==
  LET firstDueDateStr == format(calculateNextDueDate(parseISO(startDate), rentCycle))
      row == [ room_number    |-> Trim(roomNumber),
               start_date     |-> startDate,
               monthly_rent   |-> monthlyRent,
               rent_cycle     |-> rentCycle,
               status         |-> calculateTenantStatus(firstDueDateStr, FALSE, clock),
               credit_balance |-> 0 ]
      d1  == [d EXCEPT !.tenants = Put(@, d.seqTenants + 1, row),
                       !.seqTenants = d.seqTenants + 1]
  IN [d1 EXCEPT !.reminders =
        createReminder(d1, d.seqTenants + 1, firstDueDateStr, clock)]

\* no recordPayment or cancelPayment call is in flight
RegistryIdle == \A q \in Tasks : pc[q] \in {"idle", "at_insert", "ut_update"}

\* the room that the call of task p asked for was in use when the call began
\* and is in use now (by a tenant other than tenantId)
StillInUse(p, tenantId) ==
  loc[p].conflict /\ checkRoomExists(db, Trim(loc[p].room_number), tenantId)

\* the call of task p returns or throws
RegistryReturn(p, h) ==
  /\ pc' = [pc EXCEPT ![p] = "idle"]
  /\ loc' = [loc EXCEPT ![p] = NoLoc]
  /\ hist' = h

\* addTenant up to its first await: checkRoomExists, the check of the rent
AT_Check(p, roomNumber, startDate, monthlyRent, rentCycle) ==
  /\ pc[p] = "idle"
  /\ RegistryIdle
  /\ db.seqTenants < MaxTenants
  /\ IF checkRoomExists(db, roomNumber, 0) \/ monthlyRent <= 0
       THEN /\ hist' = [NoHist EXCEPT !.op = "addTenant", !.ok = FALSE,
                          !.conflict = checkRoomExists(db, Trim(roomNumber), 0)]
            /\ UNCHANGED <<pc, loc>>
       ELSE /\ pc' = [pc EXCEPT ![p] = "at_insert"]
            /\ loc' = [loc EXCEPT ![p] =
                         [ op |-> "addTenant", room_number |-> roomNumber,
                           start_date |-> startDate, monthly_rent |-> monthlyRent,
                           rent_cycle |-> rentCycle,
                           conflict |-> checkRoomExists(db, Trim(roomNumber), 0) ]]
            /\ UNCHANGED hist
  /\ UNCHANGED <<db, snap, inTxn, now, epi, edits, races>>

\* the INSERT: SQLite rejects it when the room is taken by now
AT_Insert(p) ==
  /\ pc[p] = "at_insert"
  /\ IF UniqueRoomViolated(db, Trim(loc[p].room_number), 0)
       THEN \* DatabaseError("Failed to save the new tenant.")
            /\ RegistryReturn(p, [NoHist EXCEPT !.op = "addTenant", !.ok = FALSE,
                                    !.conflict = StillInUse(p, 0),
                                    !.raced = ~loc[p].conflict])
            /\ UNCHANGED db
       ELSE /\ db' = InsertTenant(db, loc[p].room_number, loc[p].start_date,
                                  loc[p].monthly_rent, loc[p].rent_cycle, now)
            /\ RegistryReturn(p, [NoHist EXCEPT !.op = "addTenant",
                                    !.tid = db.seqTenants + 1, !.same = FALSE,
                                    !.conflict = StillInUse(p, 0)])
  /\ UNCHANGED <<snap, inTxn, now, epi, edits, races>>

\* tenantId is a tenant and the room is that of a different tenant
RoomOfAnother(d, tenantId, roomNumber) ==
  /\ tenantId \in DOMAIN d.tenants
  /\ checkRoomExists(d, Trim(roomNumber), tenantId)

\* updateTenant up to its first await: checkRoomExists(room, tenantId)
UT_Check(p, tenantId, roomNumber, startDate, monthlyRent, rentCycle) ==
  /\ pc[p] = "idle"
  /\ RegistryIdle
  /\ edits < MaxEdits
  /\ edits' = edits + 1
  /\ IF checkRoomExists(db, roomNumber, tenantId)
       THEN /\ hist' = [NoHist EXCEPT !.op = "updateTenant", !.ok = FALSE,
                          !.tid = tenantId,
                          !.conflict = RoomOfAnother(db, tenantId, roomNumber)]
            /\ UNCHANGED <<pc, loc>>
       ELSE /\ pc' = [pc EXCEPT ![p] = "ut_update"]
            /\ loc' = [loc EXCEPT ![p] =
                         [ op |-> "updateTenant", tenantId |-> tenantId,
                           room_number |-> roomNumber,
                           start_date |-> startDate, monthly_rent |-> monthlyRent,
                           rent_cycle |-> rentCycle,
                           conflict |-> RoomOfAnother(db, tenantId, roomNumber) ]]
            /\ UNCHANGED hist
  /\ UNCHANGED <<db, snap, inTxn, now, epi, races>>

\* the UPDATE: no row and no error when the tenant does not exist; SQLite
\* rejects it when another tenant has the room by now
UT_Update(p) ==
  /\ pc[p] = "ut_update"
  /\ IF loc[p].tenantId \notin DOMAIN db.tenants
       THEN /\ RegistryReturn(p, [NoHist EXCEPT !.op = "updateTenant",
                                    !.tid = loc[p].tenantId])
            /\ UNCHANGED db
     ELSE IF UniqueRoomViolated(db, Trim(loc[p].room_number), loc[p].tenantId)
       THEN \* DatabaseError("Failed to save tenant updates.")
            /\ RegistryReturn(p, [NoHist EXCEPT !.op = "updateTenant", !.ok = FALSE,
                                    !.tid = loc[p].tenantId,
                                    !.conflict = StillInUse(p, loc[p].tenantId),
                                    !.raced = ~loc[p].conflict])
            /\ UNCHANGED db
       ELSE /\ db' = [db EXCEPT !.tenants[loc[p].tenantId] =
                        [@ EXCEPT !.room_number  = Trim(loc[p].room_number),
                                  !.start_date   = loc[p].start_date,
                                  !.monthly_rent = loc[p].monthly_rent,
                                  !.rent_cycle   = loc[p].rent_cycle]]
            /\ RegistryReturn(p, [NoHist EXCEPT !.op = "updateTenant",
                                    !.tid = loc[p].tenantId, !.same = FALSE,
                                    !.conflict = StillInUse(p, loc[p].tenantId)])
  /\ UNCHANGED <<snap, inTxn, now, epi, edits, races>>

\* the rows of table rows (a function or a sequence) that are not of tenantId
RowsOfOthers(rows, tenantId) ==
  {rows[i] : i \in {j \in DOMAIN rows : rows[j].tenant_id # tenantId}}

\* ON DELETE CASCADE, when the connection enforces foreign keys
Cascade(d, tenantId) ==
  [d EXCEPT
     !.payments = [i \in {j \in DOMAIN @ : @[j].tenant_id # tenantId} |-> @[i]],
     !.reminders = SelectSeq(@, LAMBDA r : r.tenant_id # tenantId)]

\* deleteTenant: cancelReminders, then DELETE FROM tenants.  PRAGMA
\* foreign_keys = ON is issued inside the transaction of initializeDatabase,
\* where SQLite ignores it, so whether the connection enforces foreign keys
\* (foreignKeys) is the default of the SQLite build
DeleteTenant(tenantId, foreignKeys) ==
  /\ Quiescent
  /\ LET d1 == [db EXCEPT !.reminders = cancelReminders(@, tenantId),
                          !.tenants = Drop(@, tenantId)]
     IN db' = IF foreignKeys THEN Cascade(d1, tenantId) ELSE d1
  /\ hist' = [NoHist EXCEPT
       !.op = "deleteTenant", !.tid = tenantId,
       !.same = /\ RowsOfOthers(db'.payments, tenantId)
                     = RowsOfOthers(db.payments, tenantId)
                /\ RowsOfOthers(db'.reminders, tenantId)
                     = RowsOfOthers(db.reminders, tenantId)
                /\ \A t \in DOMAIN db.tenants \ {tenantId} :
                     t \in DOMAIN db'.tenants /\ db'.tenants[t] = db.tenants[t]]
  /\ UNCHANGED <<snap, inTxn, now, pc, loc, epi, edits, races>>

(***************************************************************************)
(* Status refresh and reconciliation sweep.                                *)
(***************************************************************************)
\* the status the refresh pass computes for a tenant of the store
RefreshedStatus(d, tenantId, clock) ==
  calculateTenantStatus(getTenantNextDueDate(d, tenantId),
                        PaymentsOf(d, tenantId) # {}, clock)

\* settings.auto_suspend_days || 30
AutoSuspendDays(d) ==
  IF d.settings.auto_suspend_days = 0 THEN DefaultAutoSuspendDays
  ELSE d.settings.auto_suspend_days

\* Math.ceil((today - dueDate) / one day), today with its time of day
DaysOverdue(d, tenantId, clock) ==
  CeilDiv(clock - parseISO(getTenantNextDueDate(d, tenantId)), UnitsPerDay)

\* a suspension pass without the auto_suspend_days test
SuspendAnyOverdue(d, tenantId, clock) ==
  d.tenants[tenantId].status = "Overdue"

\* the suspension pass reads tenant.status from the rows the sweep loaded
\* before its first pass
SuspensionDue(d, tenantId, clock) ==
  /\ d.tenants[tenantId].status = "Overdue"
  /\ DaysOverdue(d, tenantId, clock) > AutoSuspendDays(d)

\* the tenants table after a sweep over the store d
SweptTenants(d, clock) ==
  [t \in DOMAIN d.tenants |->
     [d.tenants[t] EXCEPT !.status =
        IF SuspensionDue(d, t, clock) THEN "Suspended"
        ELSE RefreshedStatus(d, t, clock)]]

\* the UPDATE statements of a sweep over the store d
SweepWrites(d, clock) ==
  Cardinality({t \in DOMAIN d.tenants : RefreshedStatus(d, t, clock) # d.tenants[t].status})
  + Cardinality({t \in DOMAIN d.tenants : SuspensionDue(d, t, clock)})

RunSystemHeartbeat ==
  /\ Quiescent
  /\ db' = [db EXCEPT !.tenants = SweptTenants(db, now)]
  /\ hist' = [NoHist EXCEPT !.op = "runSystemHeartbeat",
                            !.writes = SweepWrites(db, now),
                            !.again = (hist.op = "runSystemHeartbeat")]
  /\ UNCHANGED <<snap, inTxn, now, pc, loc, epi, edits, races>>

UpdateAllTenantStatuses ==
  /\ Quiescent
  /\ db' = [db EXCEPT !.tenants =
              [t \in DOMAIN db.tenants |->
                 [db.tenants[t] EXCEPT !.status = RefreshedStatus(db, t, now)]]]
  /\ hist' = [NoHist EXCEPT !.op = "updateAllTenantStatuses"]
  /\ UNCHANGED <<snap, inTxn, now, pc, loc, epi, edits, races>>

(***************************************************************************)
(* Transactions on the shared handle.                                      *)
(***************************************************************************)
\* a ROLLBACK that leaves the writes of the transaction in the tables
RollbackKeepingWrites(d, s) == d

\* ROLLBACK with a transaction open: the tables are again as at its BEGIN
ExecRollback(d, s) == s

\* JavaScript a % b for b # 0: the remainder has the sign of a and depends
\* on the magnitude of b only
JsRem(a, b) ==
  IF a >= 0 THEN a % (IF b < 0 THEN -b ELSE b)
  ELSE -((-a) % (IF b < 0 THEN -b ELSE b))

(***************************************************************************)
(* recordPayment: the payment allocator.                                   *)
(***************************************************************************)
\* Math.floor(totalAvailable / currentRent)
FullCyclesCovered(totalAvailable, currentRent) == totalAvailable \div currentRent

\* a remainder that takes a single rent off the total
CreditLessOneRent(totalAvailable, currentRent) ==
  IF totalAvailable >= currentRent THEN totalAvailable - currentRent
  ELSE totalAvailable

\* totalAvailable % currentRent
NewCreditBalance(totalAvailable, currentRent) == JsRem(totalAvailable, currentRent)

\* a base date that is the start date whatever has been paid
BaseFromStartDate(d, tenantId) == parseISO(d.tenants[tenantId].start_date)

\* the date the cycles are counted from: next_due_date of the payment that is
\* first by payment_date DESC, payment_id DESC; start_date without payments
BaseDate(d, tenantId) ==
  LET ids == PaymentsOf(d, tenantId)
  IN IF ids # {}
       THEN parseISO(d.payments[FirstByPaymentDate(d, ids)].next_due_date)
       ELSE parseISO(d.tenants[tenantId].start_date)

\* what recordPayment computes between its reads and its INSERT
Allocation(d, tenantId, amountPaid) ==
  LET tenant            == d.tenants[tenantId]
      currentRent       == tenant.monthly_rent
      totalAvailable    == amountPaid + tenant.credit_balance
      fullCyclesCovered == FullCyclesCovered(totalAvailable, currentRent)
  IN [ currentRent       |-> currentRent,
       rentCycle         |-> tenant.rent_cycle,
       fullCyclesCovered |-> fullCyclesCovered,
       newCreditBalance  |-> NewCreditBalance(totalAvailable, currentRent),
       nextDueDateStr    |->
         format(AdvanceCycles(BaseDate(d, tenantId), tenant.rent_cycle, fullCyclesCovered)) ]

\* INSERT INTO payments (...)
InsertPayment(d, tenantId, amountPaid, paymentDate, a) ==
  [d EXCEPT !.payments = Put(@, d.seqPayments + 1,
                             [ tenant_id              |-> tenantId,
                               amount_paid            |-> amountPaid,
                               months_paid_for        |-> a.fullCyclesCovered,
                               payment_date           |-> paymentDate,
                               next_due_date          |-> a.nextDueDateStr,
                               rent_amount_at_payment |-> a.currentRent,
                               rent_cycle_at_payment  |-> a.rentCycle ]),
            !.seqPayments = @ + 1]

\* UPDATE tenants SET credit_balance = ?, status = ? WHERE tenant_id = ?
UpdatePaidTenant(d, tenantId, a, clock) ==
  IF tenantId \in DOMAIN d.tenants
    THEN [d EXCEPT !.tenants[tenantId] =
            [@ EXCEPT !.credit_balance = a.newCreditBalance,
                      !.status = calculateTenantStatus(a.nextDueDateStr, TRUE, clock)]]
    ELSE d

\* cancelReminders, then createReminder; either call can fail, and
\* recordPayment goes on (createReminder needs the tenant row)
UpdateReminders(d, tenantId, dueDate, clock, cancelOk, createOk) ==
  LET d1 == IF cancelOk
              THEN [d EXCEPT !.reminders = cancelReminders(@, tenantId)]
              ELSE d
  IN IF createOk /\ tenantId \in DOMAIN d1.tenants
       THEN [d1 EXCEPT !.reminders = createReminder(d1, tenantId, dueDate, clock)]
       ELSE d1

\* the call enters the concurrency episode
Enter(call) ==
  IF Quiescent THEN [base |-> db, calls |-> <<call>>]
  ELSE [epi EXCEPT !.calls = Append(@, call)]

\* execAsync('BEGIN TRANSACTION'): fails when the handle has one open
RecordPayment(p, tenantId, amountPaid, paymentDate) ==
  /\ pc[p] = "idle"
  /\ Quiescent \/ (Len(epi.calls) < 2 /\ races < MaxRaces)
  /\ LET call == [ op |-> "recordPayment", tenantId |-> tenantId,
                   amountPaid |-> amountPaid, paymentDate |-> paymentDate,
                   paymentId |-> 0 ]
     IN /\ epi' = Enter(call)
        /\ loc' = [loc EXCEPT ![p] =
                     [ op |-> "recordPayment", tenantId |-> tenantId,
                       amountPaid |-> amountPaid, paymentDate |-> paymentDate,
                       began |-> ~inTxn, a |-> NoLoc, paymentId |-> 0,
                       warned |-> FALSE ]]
  /\ hist' = NoHist
  /\ IF inTxn
       THEN /\ pc' = [pc EXCEPT ![p] = "rp_rollback"]
            /\ UNCHANGED <<snap, inTxn>>
       ELSE /\ pc' = [pc EXCEPT ![p] = "rp_read"]
            /\ snap' = db
            /\ inTxn' = TRUE
  /\ races' = IF Quiescent THEN races ELSE races + 1
  /\ UNCHANGED <<db, now, edits>>

\* SELECT the tenant and the last payment; compute the allocation
\* Math.floor(totalAvailable / 0) is Infinity for totalAvailable > 0, and
\* 'i < fullCyclesCovered' then holds for every i the loop counter can take
CyclesUnbounded(d, tenantId, amountPaid) ==
  /\ d.tenants[tenantId].monthly_rent = 0
  /\ amountPaid + d.tenants[tenantId].credit_balance > 0

\* the reads and the cycle-advance loop, which is synchronous: at "rp_loop"
\* the call never reaches its next await
RP_Read(p) ==
  /\ pc[p] = "rp_read"
  /\ IF loc[p].tenantId \in DOMAIN db.tenants
       THEN IF CyclesUnbounded(db, loc[p].tenantId, loc[p].amountPaid)
              THEN /\ pc' = [pc EXCEPT ![p] = "rp_loop"]
                   /\ UNCHANGED loc
              ELSE /\ loc' = [loc EXCEPT ![p].a =
                                Allocation(db, loc[p].tenantId, loc[p].amountPaid)]
                   /\ pc' = [pc EXCEPT ![p] = "rp_insert"]
       ELSE \* throw new Error('Tenant not found')
            /\ pc' = [pc EXCEPT ![p] = "rp_rollback"]
            /\ UNCHANGED loc
  /\ UNCHANGED <<db, snap, inTxn, now, hist, epi, edits, races>>

RP_Insert(p, fails) ==
  /\ pc[p] = "rp_insert"
  /\ IF fails
       THEN /\ pc' = [pc EXCEPT ![p] = "rp_rollback"]
            /\ UNCHANGED <<db, loc>>
       ELSE /\ db' = InsertPayment(db, loc[p].tenantId, loc[p].amountPaid,
                                   loc[p].paymentDate, loc[p].a)
            /\ loc' = [loc EXCEPT ![p].paymentId = db.seqPayments + 1]
            /\ pc' = [pc EXCEPT ![p] = "rp_update"]
  /\ UNCHANGED <<snap, inTxn, now, hist, epi, edits, races>>

RP_Update(p, fails) ==
  /\ pc[p] = "rp_update"
  /\ IF fails
       THEN /\ pc' = [pc EXCEPT ![p] = "rp_rollback"]
            /\ UNCHANGED db
       ELSE /\ db' = UpdatePaidTenant(db, loc[p].tenantId, loc[p].a, now)
            /\ pc' = [pc EXCEPT ![p] = "rp_remind"]
  /\ UNCHANGED <<snap, inTxn, now, loc, hist, epi, edits, races>>

\* a reminder update that throws goes to the catch block of the rollback
ThrowOnGatewayFailure(createOk) ==
  IF createOk THEN "rp_commit" ELSE "rp_rollback"

\* catch (notifError) { warnings.push(...) }: execution goes on to the COMMIT
\* whether createReminder threw or not
AfterReminders(createOk) == "rp_commit"

\* cancelReminders (which swallows its own failure: cancelOk = FALSE leaves
\* the reminders as they were) and createReminder (which throws when it fails,
\* createOk = FALSE), inside try/catch
RP_Remind(p, cancelOk, createOk) ==
  /\ pc[p] = "rp_remind"
  /\ db' = UpdateReminders(db, loc[p].tenantId, loc[p].a.nextDueDateStr, now,
                           cancelOk, createOk)
  /\ loc' = [loc EXCEPT ![p].warned = ~createOk]
  /\ pc' = [pc EXCEPT ![p] = AfterReminders(createOk)]
  /\ UNCHANGED <<snap, inTxn, now, hist, epi, edits, races>>

(***************************************************************************)
(* cancelPayment: the payment reversal.                                    *)
(***************************************************************************)
\* a check that lets any payment of the tenant be cancelled
IsSomePayment(d, paymentId, tenantId) == paymentId \in PaymentsOf(d, tenantId)

\* SELECT (payment_id = ?) AS is_last FROM payments WHERE tenant_id = ?
\* ORDER BY next_due_date DESC, payment_id DESC LIMIT 1
IsLastPayment(d, paymentId, tenantId) ==
  FirstByDueDate(d, PaymentsOf(d, tenantId)) = paymentId

\* what cancelPayment reads before its DELETE: the payment (joined with its
\* tenant), the tenant, whether the payment is the last one, and the
\* next_due_date of the previous payment (payment_id < ?), if any
Reversal(d, paymentId) ==
  LET payment  == d.payments[paymentId]
      tenantId == payment.tenant_id
      tenant   == d.tenants[tenantId]
      earlier  == {i \in PaymentsOf(d, tenantId) : i < paymentId}
  IN [ tenantId       |-> tenantId,
       amountPaid     |-> payment.amount_paid,
       isLast         |-> IsLastPayment(d, paymentId, tenantId),
       reversedCredit |-> tenant.credit_balance - payment.amount_paid,
       newNextDueDate |->
         IF earlier # {}
           THEN d.payments[FirstByDueDate(d, earlier)].next_due_date
           ELSE format(calculateNextDueDate(parseISO(tenant.start_date), tenant.rent_cycle)) ]

\* DELETE FROM payments WHERE payment_id = ?
DeletePayment(d, paymentId) == [d EXCEPT !.payments = Drop(@, paymentId)]

\* SELECT COUNT(*) of the tenant's payments, then UPDATE tenants SET
\* credit_balance = ?, status = ? WHERE tenant_id = ?
UpdateReversedTenant(d, r, clock) ==
  IF r.tenantId \in DOMAIN d.tenants
    THEN [d EXCEPT !.tenants[r.tenantId] =
            [@ EXCEPT !.credit_balance = Max(r.reversedCredit, 0),
                      !.status = calculateTenantStatus(r.newNextDueDate,
                                   PaymentsOf(d, r.tenantId) # {}, clock)]]
    ELSE d

\* INSERT INTO payment_cancellations (...)
InsertCancellation(d, paymentId, r) ==
  [d EXCEPT !.payment_cancellations =
     Append(@, [ original_payment_id |-> paymentId, tenant_id |-> r.tenantId,
                 amount |-> r.amountPaid, reason |-> "reason" ])]

(***************************************************************************)
(* The operations run one at a time, for comparison with interleaved runs. *)
(***************************************************************************)
RecordPaymentTxn(d, clock, c) ==
  IF c.tenantId \notin DOMAIN d.tenants THEN d
  ELSE LET a == Allocation(d, c.tenantId, c.amountPaid)
       IN UpdatePaidTenant(
            InsertPayment(d, c.tenantId, c.amountPaid, c.paymentDate, a),
            c.tenantId, a, clock)

CancelPaymentTxn(d, clock, c) ==
  IF \/ c.paymentId \notin DOMAIN d.payments
     \/ d.payments[c.paymentId].tenant_id \notin DOMAIN d.tenants
    THEN d
  ELSE LET r == Reversal(d, c.paymentId)
       IN IF ~r.isLast THEN d
          ELSE InsertCancellation(
                 UpdateReversedTenant(DeletePayment(d, c.paymentId), r, clock),
                 c.paymentId, r)

ApplyCall(d, clock, c) ==
  IF c.op = "recordPayment" THEN RecordPaymentTxn(d, clock, c)
  ELSE CancelPaymentTxn(d, clock, c)

\* the stores of D, and those that call c leaves when it runs on one of them
\* (a call may fail as a whole and leave the store as it found it)
After(D, clock, c) == D \cup {ApplyCall(d, clock, c) : d \in D}

\* the ledgers that the calls of the episode, run one after the other in
\* some order, can leave
SerialOutcomes(e, clock) ==
  LET n == Len(e.calls)
      B == {e.base}
      stores == CASE n = 0 -> B
                  [] n = 1 -> After(B, clock, e.calls[1])
                  [] OTHER -> After(After(B, clock, e.calls[1]), clock, e.calls[2])
                              \cup After(After(B, clock, e.calls[2]), clock, e.calls[1])
  IN {Ledger(d) : d \in stores}

\* the call of task p returns or throws: h is what it did
Finish(p, h) ==
  LET last == \A q \in Tasks \ {p} : pc[q] = "idle"
  IN /\ pc' = [pc EXCEPT ![p] = "idle"]
     /\ loc' = [loc EXCEPT ![p] = NoLoc]
     /\ epi' = IF last THEN NoEpi ELSE epi
     /\ hist' = [h EXCEPT !.serial =
                   IF last THEN Ledger(db') \in SerialOutcomes(epi, now) ELSE TRUE]

\* execAsync('COMMIT'): throws without an open transaction, or on a storage
\* failure; then the catch block runs
RP_Commit(p, fails) ==
  /\ pc[p] = "rp_commit"
  /\ IF inTxn /\ ~fails
       THEN /\ inTxn' = FALSE
            /\ snap' = EmptyDb
            /\ UNCHANGED db
            /\ Finish(p, [NoHist EXCEPT
                 !.op = "recordPayment", !.began = loc[p].began,
                 !.tid = loc[p].tenantId, !.pid = loc[p].paymentId,
                 !.amount = loc[p].amountPaid, !.warned = loc[p].warned,
                 !.before = epi.base.tenants[loc[p].tenantId],
                 !.dueBefore = getTenantNextDueDate(epi.base, loc[p].tenantId),
                 !.same = (Ledger(db) = Ledger(epi.base))])
       ELSE /\ pc' = [pc EXCEPT ![p] = "rp_rollback"]
            /\ UNCHANGED <<db, snap, inTxn, loc, hist, epi>>
  /\ UNCHANGED <<now, edits, races>>

\* catch: execAsync('ROLLBACK') (which itself throws without an open
\* transaction), then throw DatabaseError
RP_Rollback(p) ==
  /\ pc[p] = "rp_rollback"
  /\ IF inTxn
       THEN /\ db' = ExecRollback(db, snap)
            /\ inTxn' = FALSE
            /\ snap' = EmptyDb
       ELSE UNCHANGED <<db, snap, inTxn>>
  /\ Finish(p, [NoHist EXCEPT
       !.op = "recordPayment", !.ok = FALSE, !.began = loc[p].began,
       !.tid = loc[p].tenantId, !.pid = loc[p].paymentId,
       !.warned = loc[p].warned,
       !.same = (Ledger(db') = Ledger(epi.base))])
  /\ UNCHANGED <<now, edits, races>>

\* the payments of the same tenant that come before paymentId in the order
\* next_due_date descending, payment_id descending
NewerPayments(d, paymentId) ==
  {j \in DOMAIN d.payments :
     /\ d.payments[j].tenant_id = d.payments[paymentId].tenant_id
     /\ \/ d.payments[j].next_due_date > d.payments[paymentId].next_due_date
        \/ /\ d.payments[j].next_due_date = d.payments[paymentId].next_due_date
           /\ j > paymentId}

CancelHist(p, ok) ==
  [NoHist EXCEPT
     !.op = "cancelPayment", !.ok = ok, !.began = loc[p].began,
     !.pid = loc[p].paymentId,
     !.tid = IF loc[p].r # NoLoc THEN loc[p].r.tenantId ELSE 0,
     !.amount = IF loc[p].r # NoLoc THEN loc[p].r.amountPaid ELSE 0,
     !.wasLast = IF loc[p].paymentId \in DOMAIN epi.base.payments
                   THEN NewerPayments(epi.base, loc[p].paymentId) = {}
                   ELSE TRUE,
     !.recorded = loc[p].recorded]

CancelPayment(p, paymentId) ==
  /\ pc[p] = "idle"
  /\ Quiescent \/ (Len(epi.calls) < 2 /\ races < MaxRaces)
  /\ Len(db.payment_cancellations) < MaxPayments
  /\ LET call == [ op |-> "cancelPayment", tenantId |-> 0, amountPaid |-> 0,
                   paymentDate |-> 0, paymentId |-> paymentId ]
     IN /\ epi' = Enter(call)
        /\ loc' = [loc EXCEPT ![p] =
                     [ op |-> "cancelPayment", paymentId |-> paymentId,
                       began |-> ~inTxn, r |-> NoLoc,
                       recorded |->
                         IF hist.op = "recordPayment" /\ hist.ok /\ hist.pid = paymentId
                           THEN hist ELSE NoLoc ]]
  /\ hist' = NoHist
  /\ IF inTxn
       THEN /\ pc' = [pc EXCEPT ![p] = "cp_rollback"]
            /\ UNCHANGED <<snap, inTxn>>
       ELSE /\ pc' = [pc EXCEPT ![p] = "cp_read"]
            /\ snap' = db
            /\ inTxn' = TRUE
  /\ races' = IF Quiescent THEN races ELSE races + 1
  /\ UNCHANGED <<db, now, edits>>

\* the reads up to the check that the payment is the tenant's last one
CP_Read(p) ==
  /\ pc[p] = "cp_read"
  /\ IF /\ loc[p].paymentId \in DOMAIN db.payments
        /\ db.payments[loc[p].paymentId].tenant_id \in DOMAIN db.tenants
       THEN LET r == Reversal(db, loc[p].paymentId)
            IN /\ loc' = [loc EXCEPT ![p].r = r]
               /\ pc' = [pc EXCEPT ![p] =
                           IF r.isLast THEN "cp_delete" ELSE "cp_rollback"]
       ELSE \* throw new Error('Payment not found')
            /\ pc' = [pc EXCEPT ![p] = "cp_rollback"]
            /\ UNCHANGED loc
  /\ UNCHANGED <<db, snap, inTxn, now, hist, epi, edits, races>>

CP_Delete(p, fails) ==
  /\ pc[p] = "cp_delete"
  /\ IF fails
       THEN /\ pc' = [pc EXCEPT ![p] = "cp_rollback"]
            /\ UNCHANGED db
       ELSE /\ db' = DeletePayment(db, loc[p].paymentId)
            /\ pc' = [pc EXCEPT ![p] = "cp_update"]
  /\ UNCHANGED <<snap, inTxn, now, loc, hist, epi, edits, races>>

CP_Update(p, fails) ==
  /\ pc[p] = "cp_update"
  /\ IF fails
       THEN /\ pc' = [pc EXCEPT ![p] = "cp_rollback"]
            /\ UNCHANGED db
       ELSE /\ db' = UpdateReversedTenant(db, loc[p].r, now)
            /\ pc' = [pc EXCEPT ![p] = "cp_audit"]
  /\ UNCHANGED <<snap, inTxn, now, loc, hist, epi, edits, races>>

CP_Audit(p, fails) ==
  /\ pc[p] = "cp_audit"
  /\ IF fails
       THEN /\ pc' = [pc EXCEPT ![p] = "cp_rollback"]
            /\ UNCHANGED db
       ELSE /\ db' = InsertCancellation(db, loc[p].paymentId, loc[p].r)
            /\ pc' = [pc EXCEPT ![p] = "cp_commit"]
  /\ UNCHANGED <<snap, inTxn, now, loc, hist, epi, edits, races>>

CP_Commit(p, fails) ==
  /\ pc[p] = "cp_commit"
  /\ IF inTxn /\ ~fails
       THEN /\ inTxn' = FALSE
            /\ snap' = EmptyDb
            /\ UNCHANGED db
            /\ Finish(p, [CancelHist(p, TRUE) EXCEPT
                            !.same = (Ledger(db) = Ledger(epi.base))])
       ELSE /\ pc' = [pc EXCEPT ![p] = "cp_rollback"]
            /\ UNCHANGED <<db, snap, inTxn, loc, hist, epi>>
  /\ UNCHANGED <<now, edits, races>>

CP_Rollback(p) ==
  /\ pc[p] = "cp_rollback"
  /\ IF inTxn
       THEN /\ db' = ExecRollback(db, snap)
            /\ inTxn' = FALSE
            /\ snap' = EmptyDb
       ELSE UNCHANGED <<db, snap, inTxn>>
  /\ Finish(p, [CancelHist(p, FALSE) EXCEPT
                  !.same = (Ledger(db') = Ledger(epi.base))])
  /\ UNCHANGED <<now, edits, races>>

(***************************************************************************)
(* fixPaymentCalculations: the ledger recomputed from the payment rows.    *)
(***************************************************************************)
\* the first row of ORDER BY payment_date ASC, payment_id ASC
EarliestByPaymentDate(d, ids) ==
  CHOOSE i \in ids : \A j \in ids :
    \/ d.payments[i].payment_date < d.payments[j].payment_date
    \/ d.payments[i].payment_date = d.payments[j].payment_date /\ i <= j

\* UPDATE payments SET months_paid_for = ?, next_due_date = ?
RewritePayment(d, i, fullCycles, currentDueDate) ==
  [d EXCEPT !.payments[i].months_paid_for = fullCycles,
            !.payments[i].next_due_date = format(currentDueDate)]

\* UPDATE tenants SET credit_balance = ?, status = ?
RewriteTenant(d, tenantId, runningCredit, currentDueDate, clock) ==
  [d EXCEPT !.tenants[tenantId].credit_balance = runningCredit,
            !.tenants[tenantId].status =
               calculateTenantStatus(format(currentDueDate),
                                     PaymentsOf(d, tenantId) # {}, clock)]

\* the loop over the payments of one tenant, ids being those still to visit
RECURSIVE ReplayPayments(_, _, _, _, _, _)
ReplayStep(d, tenantId, ids, i, totalAvailable, currentDueDate, clock) ==
  ReplayPayments(
    RewritePayment(d, i,
      FullCyclesCovered(totalAvailable, d.tenants[tenantId].monthly_rent),
      AdvanceCycles(currentDueDate, d.tenants[tenantId].rent_cycle,
        FullCyclesCovered(totalAvailable, d.tenants[tenantId].monthly_rent))),
    tenantId, ids \ {i},
    NewCreditBalance(totalAvailable, d.tenants[tenantId].monthly_rent),
    AdvanceCycles(currentDueDate, d.tenants[tenantId].rent_cycle,
      FullCyclesCovered(totalAvailable, d.tenants[tenantId].monthly_rent)),
    clock)

ReplayNext(d, tenantId, ids, i, runningCredit, currentDueDate, clock) ==
  ReplayStep(d, tenantId, ids, i, d.payments[i].amount_paid + runningCredit,
             currentDueDate, clock)

ReplayPayments(d, tenantId, ids, runningCredit, currentDueDate, clock) ==
  IF ids = {}
    THEN RewriteTenant(d, tenantId, runningCredit, currentDueDate, clock)
    ELSE ReplayNext(d, tenantId, ids, EarliestByPaymentDate(d, ids),
                    runningCredit, currentDueDate, clock)

\* the loop over the tenants, ts being those still to visit
RECURSIVE ReplayTenants(_, _, _)
ReplayTenants(d, ts, clock) ==
  IF ts = {} THEN d
  ELSE LET t == CHOOSE x \in ts : \A y \in ts : x <= y
       IN ReplayTenants(
            ReplayPayments(d, t, PaymentsOf(d, t), 0,
                           parseISO(d.tenants[t].start_date), clock),
            ts \ {t}, clock)

\* the store that a successful fixPaymentCalculations leaves
fixPaymentCalculations(d, clock) == ReplayTenants(d, DOMAIN d.tenants, clock)

\* fixPaymentCalculations as a call: BEGIN TRANSACTION, the replay, COMMIT;
\* when a statement throws (fails), ROLLBACK and rethrow
FixPaymentCalculations(fails) ==
  /\ Quiescent
  /\ ~inTxn
  /\ db' = IF fails THEN ExecRollback(db, db) ELSE fixPaymentCalculations(db, now)
  /\ hist' = [NoHist EXCEPT !.op = "fixPaymentCalculations", !.ok = ~fails,
                            !.began = TRUE, !.same = (Ledger(db') = Ledger(db))]
  /\ UNCHANGED <<snap, inTxn, now, pc, loc, epi, edits, races>>

(***************************************************************************)
(* Specifications.  Spec: the operations run one after the other (one     *)
(* asynchronous call at a time).  SpecConc: two calls of recordPayment or  *)
(* cancelPayment may be in flight together, interleaved at their awaits.   *)
(***************************************************************************)
\* the steps of task p; Faults are the outcomes of a write to the store:
\* TRUE when the statement throws (disk full, I/O error)
TaskStep(p, Faults) ==
  \/ \E t \in TenantIds, a \in Amounts, pd \in PaymentDates :
        db.seqPayments < MaxPayments /\ RecordPayment(p, t, a, pd)
  \/ RP_Read(p)
  \/ \E fails \in Faults : RP_Insert(p, fails)
  \/ \E fails \in Faults : RP_Update(p, fails)
  \/ RP_Remind(p, TRUE, TRUE)
  \/ \E fails \in Faults : RP_Commit(p, fails)
  \/ RP_Rollback(p)
  \/ \E i \in PaymentIds : CancelPayment(p, i)
  \/ CP_Read(p)
  \/ \E fails \in Faults : CP_Delete(p, fails)
  \/ \E fails \in Faults : CP_Update(p, fails)
  \/ \E fails \in Faults : CP_Audit(p, fails)
  \/ \E fails \in Faults : CP_Commit(p, fails)
  \/ CP_Rollback(p)

AddStep ==
  \E i \in AddInputs :
    AddTenant(i.room_number, i.start_date, i.monthly_rent, i.rent_cycle, TRUE)

RegistryStep ==
  \/ AddStep
  \/ \E t \in TenantIds, i \in EditInputs :
        UpdateTenant(t, i.room_number, i.start_date, i.monthly_rent, i.rent_cycle)
  \/ \E t \in TenantIds : ResetCreditBalance(t)
  \/ RunSystemHeartbeat
  \/ UpdateAllTenantStatuses
  \/ Tick

Next == (\E p \in SeqTasks : TaskStep(p, BOOLEAN)) \/ RegistryStep

Spec == Init /\ [][Next]_vars

\* two calls of recordPayment or cancelPayment in flight on the shared handle
AddStepConc == db.seqTenants < MaxTenantsConc /\ AddStep

NextConc == (\E p \in Tasks : TaskStep(p, {FALSE})) \/ AddStepConc

SpecConc == Init /\ [][NextConc]_vars

\* SpecLedger: one tenant, payments dated in or out of order, reminder
\* updates that may fail, no storage fault
MaxLedgerPayments == 3
LedgerDates == {YMD(2024, 3, 10), YMD(2024, 3, 15)}

\* the steps of a call of task p without storage fault: payments of the
\* given amounts and dates, at most maxPayments of them, and reminder updates
\* whose createReminder succeeds or not as Gateway says
CallStep(p, amounts, dates, maxPayments, Gateway) ==
  \/ \E t \in TenantIds, a \in amounts, pd \in dates :
        db.seqPayments < maxPayments /\ RecordPayment(p, t, a, pd)
  \/ RP_Read(p)
  \/ RP_Insert(p, FALSE)
  \/ RP_Update(p, FALSE)
  \/ \E cancelOk \in Gateway, createOk \in Gateway : RP_Remind(p, cancelOk, createOk)
  \/ RP_Commit(p, FALSE)
  \/ RP_Rollback(p)
  \/ \E i \in 1..maxPayments : CancelPayment(p, i)
  \/ CP_Read(p)
  \/ CP_Delete(p, FALSE)
  \/ CP_Update(p, FALSE)
  \/ CP_Audit(p, FALSE)
  \/ CP_Commit(p, FALSE)
  \/ CP_Rollback(p)

LedgerStep(p) == CallStep(p, Amounts, LedgerDates, MaxLedgerPayments, BOOLEAN)

NextLedger == (\E p \in SeqTasks : LedgerStep(p)) \/ AddStepConc

SpecLedger == Init /\ [][NextLedger]_vars

\* SpecRaw: recordPayment called directly with amounts that the payment form
\* would not let through (record-payment.tsx checks the amount, recordPayment
\* itself does not, and the tests call it directly)
RawAmounts == {-1, 0, 1}

RawStep(p) == CallStep(p, RawAmounts, PaymentDates, MaxPayments, {TRUE})

NextRaw == (\E p \in SeqTasks : RawStep(p)) \/ AddStepConc

SpecRaw == Init /\ [][NextRaw]_vars

\* SpecRegistry: addTenant and updateTenant calls of two tasks interleaved at
\* their awaits, deleteTenant, and payments of one amount in between
RegistryInputs ==
  { [room_number |-> "A", start_date |-> YMD(2024, 1, 15), monthly_rent |-> 2,
     rent_cycle |-> "monthly"],
    [room_number |-> " A", start_date |-> YMD(2024, 1, 15), monthly_rent |-> 2,
     rent_cycle |-> "monthly"],
    [room_number |-> "B", start_date |-> YMD(2024, 3, 3), monthly_rent |-> 3,
     rent_cycle |-> "monthly"] }
RegistryAmounts == {2}

RegistryCall(p) ==
  \/ \E i \in RegistryInputs :
        AT_Check(p, i.room_number, i.start_date, i.monthly_rent, i.rent_cycle)
  \/ AT_Insert(p)
  \/ \E t \in TenantIds, i \in RegistryInputs :
        UT_Check(p, t, i.room_number, i.start_date, i.monthly_rent, i.rent_cycle)
  \/ UT_Update(p)

NextRegistry ==
  \/ \E p \in Tasks : RegistryCall(p)
  \/ \E t \in TenantIds, foreignKeys \in BOOLEAN : DeleteTenant(t, foreignKeys)
  \/ \E p \in SeqTasks :
        /\ \A q \in Tasks \ {p} : pc[q] = "idle"
        /\ CallStep(p, RegistryAmounts, PaymentDates, MaxPayments, {TRUE})

SpecRegistry == Init /\ [][NextRegistry]_vars

\* the registry and ledger calls of SpecRegistry, and fixPaymentCalculations
NextRepair ==
  \/ NextRegistry
  \/ \E fails \in BOOLEAN : FixPaymentCalculations(fails)

SpecRepair == Init /\ [][NextRepair]_vars

\* SpecStatus: calculateTenantStatus applied once to arguments drawn from
\* StatusDates (a day around Today0, a missing date, an unparsable one), both
\* values of hasPayments, and a clock at any time of Today0
StatusSpan == 8
StatusDates ==
  (Today0 - StatusSpan)..(Today0 + StatusSpan) \cup {NoDate, BadDate}

InitStatus ==
  /\ db = EmptyDb
  /\ snap = EmptyDb
  /\ inTxn = FALSE
  /\ now \in parseISO(Today0)..(parseISO(Today0) + UnitsPerDay - 1)
  /\ pc = [q \in Tasks |-> "idle"]
  /\ \E d \in StatusDates, h \in BOOLEAN :
       loc = [q \in Tasks |->
                IF q \in SeqTasks
                  THEN [op |-> "calculateTenantStatus", nextDueDate |-> d,
                        hasPayments |-> h, status |-> "none"]
                  ELSE NoLoc]
  /\ hist = NoHist
  /\ epi = NoEpi
  /\ edits = 0
  /\ races = 0

Classify(p) ==
  /\ loc[p].op = "calculateTenantStatus"
  /\ loc[p].status = "none"
  /\ loc' = [loc EXCEPT ![p].status =
               calculateTenantStatus(loc[p].nextDueDate, loc[p].hasPayments, now)]
  /\ UNCHANGED <<db, snap, inTxn, now, pc, hist, epi, edits, races>>

NextStatus == \E p \in SeqTasks : Classify(p)

SpecStatus == InitStatus /\ [][NextStatus]_vars

\* SpecRent: addTenant, updateTenant and deleteTenant called with a rent
\* that is positive, zero or negative
RentInputs ==
  { [room_number |-> "A", start_date |-> YMD(2024, 1, 15), monthly_rent |-> 2,
     rent_cycle |-> "monthly"],
    [room_number |-> "A", start_date |-> YMD(2024, 1, 15), monthly_rent |-> 0,
     rent_cycle |-> "monthly"],
    [room_number |-> "B", start_date |-> YMD(2024, 3, 3), monthly_rent |-> -1,
     rent_cycle |-> "biweekly"] }

RentCall(p) ==
  \/ \E i \in RentInputs :
        AT_Check(p, i.room_number, i.start_date, i.monthly_rent, i.rent_cycle)
  \/ AT_Insert(p)
  \/ \E t \in TenantIds, i \in RentInputs :
        UT_Check(p, t, i.room_number, i.start_date, i.monthly_rent, i.rent_cycle)
  \/ UT_Update(p)

NextRent ==
  \/ \E p \in Tasks : RentCall(p)
  \/ \E t \in TenantIds, foreignKeys \in BOOLEAN : DeleteTenant(t, foreignKeys)

SpecRent == Init /\ [][NextRent]_vars

\* SpecHang: the registry calls of SpecRent (a rent of 2, 0 or -1), and one
\* payment of 2 recorded and cancelled while no registry call is in flight
NextHang ==
  \/ \E p \in Tasks : RentCall(p)
  \/ \E p \in SeqTasks :
        /\ \A q \in Tasks \ {p} : pc[q] = "idle"
        /\ CallStep(p, {2}, PaymentDates, 1, {TRUE})

SpecHang == Init /\ [][NextHang]_vars

\* SpecPair: payments only, recorded one after the other with payment dates
\* that never go back, for a monthly tenant who started on a 31st and a
\* biweekly one
PairInputs ==
  { [room_number |-> "A", start_date |-> YMD(2024, 1, 31), monthly_rent |-> 2,
     rent_cycle |-> "monthly"],
    [room_number |-> "B", start_date |-> YMD(2024, 3, 3), monthly_rent |-> 3,
     rent_cycle |-> "biweekly"] }

NextPair ==
  \/ \E i \in PairInputs :
        AddTenant(i.room_number, i.start_date, i.monthly_rent, i.rent_cycle, TRUE)
  \/ \E p \in SeqTasks :
        \/ \E t \in TenantIds, a \in Amounts, pd \in LedgerDates :
              /\ db.seqPayments < MaxLedgerPayments
              /\ \A i \in DOMAIN db.payments : db.payments[i].payment_date <= pd
              /\ RecordPayment(p, t, a, pd)
        \/ RP_Read(p)
        \/ RP_Insert(p, FALSE)
        \/ RP_Update(p, FALSE)
        \/ RP_Remind(p, TRUE, TRUE)
        \/ RP_Commit(p, FALSE)
        \/ RP_Rollback(p)

SpecPair == Init /\ [][NextPair]_vars

(***************************************************************************)
(* initializeDatabase: the guarded start-up.  In SpecBoot db is the store  *)
(* file (whether the tables exist, and the settings rows), snap and inTxn  *)
(* the transaction of the handle, epi the module-level variables of        *)
(* database.ts (db, initializationPromise) with the promises made so far,  *)
(* each at the position its closure has reached, and pc and loc the        *)
(* callers with the promise each one was handed.                           *)
(***************************************************************************)
MaxAttempts == 3

\* the store of a first launch, and the one an earlier launch initialized
BootStores ==
  { [tables |-> FALSE, settings |-> << >>],
    [tables |-> TRUE,  settings |-> <<EmptyDb.settings>>] }

InitBoot ==
  /\ db \in BootStores
  /\ snap = db
  /\ inTxn = FALSE
  /\ now = parseISO(Today0)
  /\ pc = [q \in Tasks |-> "idle"]
  /\ loc = [q \in Tasks |-> NoLoc]
  /\ hist = NoHist
  /\ epi = [db |-> FALSE, initializationPromise |-> 0, promises |-> << >>]
  /\ edits = 0
  /\ races = 0

\* an initializeDatabase call up to its return: the pending (or settled)
\* promise when there is one; else the closure runs up to its first await.
\* openDatabaseSync throwing lands in the catch block before the closure has
\* returned: the block sets initializationPromise = null, and the assignment
\* of line 192 then stores the rejected promise
initializeDatabase(p, openFails) ==
  /\ pc[p] = "idle"
  /\ IF epi.initializationPromise # 0
       THEN /\ loc' = [loc EXCEPT ![p] =
                         [ op |-> "initializeDatabase",
                           promise |-> epi.initializationPromise,
                           handedAs |-> epi.promises[epi.initializationPromise] ]]
            /\ UNCHANGED epi
       ELSE /\ Len(epi.promises) < MaxAttempts
            /\ loc' = [loc EXCEPT ![p] =
                         [ op |-> "initializeDatabase",
                           promise |-> Len(epi.promises) + 1,
                           handedAs |-> "new" ]]
            /\ epi' = IF ~epi.db /\ openFails
                        THEN [ db |-> FALSE,
                               initializationPromise |-> Len(epi.promises) + 1,
                               promises |-> Append(epi.promises, "rejected") ]
                        ELSE [ db |-> TRUE,
                               initializationPromise |-> Len(epi.promises) + 1,
                               promises |-> Append(epi.promises, "begin") ]
  /\ pc' = [pc EXCEPT ![p] = "awaiting"]
  /\ hist' = NoHist
  /\ UNCHANGED <<db, snap, inTxn, now, edits, races>>

\* execAsync('BEGIN TRANSACTION'), PRAGMA foreign_keys
ID_Begin(i, fails) ==
  /\ i \in DOMAIN epi.promises
  /\ epi.promises[i] = "begin"
  /\ IF inTxn \/ fails
       THEN /\ epi' = [epi EXCEPT !.promises[i] = "catch"]
            /\ UNCHANGED <<snap, inTxn>>
       ELSE /\ epi' = [epi EXCEPT !.promises[i] = "schema"]
            /\ snap' = db
            /\ inTxn' = TRUE
  /\ hist' = NoHist
  /\ UNCHANGED <<db, now, pc, loc, edits, races>>

\* CREATE TABLE IF NOT EXISTS (5 tables), runMigrations, the two backfills
ID_Schema(i, fails) ==
  /\ i \in DOMAIN epi.promises
  /\ epi.promises[i] = "schema"
  /\ IF fails
       THEN /\ epi' = [epi EXCEPT !.promises[i] = "catch"]
            /\ UNCHANGED db
       ELSE /\ epi' = [epi EXCEPT !.promises[i] = "seed"]
            /\ db' = [db EXCEPT !.tables = TRUE]
  /\ hist' = NoHist
  /\ UNCHANGED <<snap, inTxn, now, pc, loc, edits, races>>

\* SELECT COUNT(*) FROM settings, and the INSERT of the default row when the
\* count is 0
ID_Seed(i, fails) ==
  /\ i \in DOMAIN epi.promises
  /\ epi.promises[i] = "seed"
  /\ IF fails
       THEN /\ epi' = [epi EXCEPT !.promises[i] = "catch"]
            /\ UNCHANGED db
       ELSE /\ epi' = [epi EXCEPT !.promises[i] = "commit"]
            /\ db' = IF Len(db.settings) = 0
                       THEN [db EXCEPT !.settings = Append(@, EmptyDb.settings)]
                       ELSE db
  /\ hist' = NoHist
  /\ UNCHANGED <<snap, inTxn, now, pc, loc, edits, races>>

\* execAsync('COMMIT'); the promise is cached for good once fulfilled
ID_Commit(i, fails) ==
  /\ i \in DOMAIN epi.promises
  /\ epi.promises[i] = "commit"
  /\ IF inTxn /\ ~fails
       THEN /\ epi' = [epi EXCEPT !.promises[i] = "fulfilled"]
            /\ inTxn' = FALSE
            /\ snap' = db
       ELSE /\ epi' = [epi EXCEPT !.promises[i] = "catch"]
            /\ UNCHANGED <<snap, inTxn>>
  /\ hist' = NoHist
  /\ UNCHANGED <<db, now, pc, loc, edits, races>>

\* the catch block: ROLLBACK on the handle, which throws out of the block
\* when no transaction is open; after it initializationPromise = null and
\* db = null
ID_Catch(i) ==
  /\ i \in DOMAIN epi.promises
  /\ epi.promises[i] = "catch"
  /\ IF epi.db /\ ~inTxn
       THEN /\ epi' = [epi EXCEPT !.promises[i] = "rejected"]
            /\ UNCHANGED <<db, snap, inTxn>>
       ELSE /\ epi' = [ db |-> FALSE, initializationPromise |-> 0,
                        promises |-> [epi.promises EXCEPT ![i] = "rejected"] ]
            /\ db' = IF epi.db THEN ExecRollback(db, snap) ELSE db
            /\ inTxn' = IF epi.db THEN FALSE ELSE inTxn
            /\ UNCHANGED snap
  /\ hist' = NoHist
  /\ UNCHANGED <<now, pc, loc, edits, races>>

\* the caller's await of the promise it was handed
ID_Settle(p) ==
  /\ pc[p] = "awaiting"
  /\ epi.promises[loc[p].promise] \in {"fulfilled", "rejected"}
  /\ pc' = [pc EXCEPT ![p] = "idle"]
  /\ loc' = [loc EXCEPT ![p] = NoLoc]
  /\ hist' = [NoHist EXCEPT !.op = "initializeDatabase",
                            !.ok = (epi.promises[loc[p].promise] = "fulfilled"),
                            !.pid = loc[p].promise]
  /\ UNCHANGED <<db, snap, inTxn, now, epi, edits, races>>

NextBoot ==
  \/ \E p \in Tasks, openFails \in BOOLEAN : initializeDatabase(p, openFails)
  \/ \E i \in 1..MaxAttempts, fails \in BOOLEAN : ID_Begin(i, fails)
  \/ \E i \in 1..MaxAttempts, fails \in BOOLEAN : ID_Schema(i, fails)
  \/ \E i \in 1..MaxAttempts, fails \in BOOLEAN : ID_Seed(i, fails)
  \/ \E i \in 1..MaxAttempts, fails \in BOOLEAN : ID_Commit(i, fails)
  \/ \E i \in 1..MaxAttempts : ID_Catch(i)
  \/ \E p \in Tasks : ID_Settle(p)

SpecBoot == InitBoot /\ [][NextBoot]_vars

\* SpecCycle: calculateNextDueDate applied once to a base date drawn from
\* the CycleSpan + 1 days from 2024-01-01 on (a leap February, a common one,
\* every month end), at any time of the day, and to each rent cycle
CycleSpan == 455
CycleBaseDates ==
  parseISO(YMD(2024, 1, 1))..(parseISO(YMD(2024, 1, 1) + CycleSpan + 1) - 1)
RentCycles == {"monthly", "biweekly", "quarterly"}

InitCycle ==
  /\ db = EmptyDb
  /\ snap = EmptyDb
  /\ inTxn = FALSE
  /\ now = parseISO(Today0)
  /\ pc = [q \in Tasks |-> "idle"]
  /\ \E b \in CycleBaseDates, c \in RentCycles :
       loc = [q \in Tasks |->
                IF q \in SeqTasks
                  THEN [op |-> "calculateNextDueDate", baseDate |-> b,
                        rentCycle |-> c, result |-> NoDate]
                  ELSE NoLoc]
  /\ hist = NoHist
  /\ epi = NoEpi
  /\ edits = 0
  /\ races = 0

NextCycleDate(p) ==
  /\ loc[p].op = "calculateNextDueDate"
  /\ loc[p].result = NoDate
  /\ loc' = [loc EXCEPT ![p].result =
               calculateNextDueDate(loc[p].baseDate, loc[p].rentCycle)]
  /\ UNCHANGED <<db, snap, inTxn, now, pc, hist, epi, edits, races>>

NextCycle == \E p \in SeqTasks : NextCycleDate(p)

SpecCycle == InitCycle /\ [][NextCycle]_vars

\* runSystemHeartbeat with UPDATE statements that may throw, run by task p
\* at any point of another call (it opens no transaction of its own, so on
\* a handle with an open transaction its writes join that transaction).
\* failed: the tenants whose UPDATE throws; the catch around each tenant
\* logs the error and the loop goes on.  The summary stays with the caller
\* in loc[p]: statusUpdates are the tenants counted by results.statusUpdates++
SweepWithFailures(d, clock, failed) ==
  [t \in DOMAIN d.tenants |->
     IF t \in failed THEN d.tenants[t] ELSE SweptTenants(d, clock)[t]]

HB_Run(p, failed) ==
  /\ pc[p] = "idle"
  /\ loc[p] = NoLoc
  /\ db' = [db EXCEPT !.tenants = SweepWithFailures(db, now, failed)]
  /\ loc' = [loc EXCEPT ![p] =
               [ op |-> "runSystemHeartbeat",
                 inTxn |-> inTxn,
                 threw |-> \E t \in failed \cap DOMAIN db.tenants :
                             SweptTenants(db, now)[t] # db.tenants[t],
                 statusUpdates |->
                   {t \in DOMAIN db.tenants \ failed :
                      RefreshedStatus(db, t, now) # db.tenants[t].status} ]]
  /\ UNCHANGED <<snap, inTxn, now, pc, hist, epi, edits, races>>

\* the caller has rendered the summary
HB_Return(p) ==
  /\ loc[p] # NoLoc
  /\ loc[p].op = "runSystemHeartbeat"
  /\ loc' = [loc EXCEPT ![p] = NoLoc]
  /\ UNCHANGED <<db, snap, inTxn, now, pc, hist, epi, edits, races>>

\* SpecSweep: two tenants overdue since 2024-02-15, one payment that may be
\* recorded and cancelled (a cancelPayment of a missing payment rolls back),
\* the clock, and sweeps of task 2 at any point
SweepInputs ==
  { [room_number |-> "A", start_date |-> YMD(2024, 1, 15), monthly_rent |-> 2,
     rent_cycle |-> "monthly"],
    [room_number |-> "B", start_date |-> YMD(2024, 1, 15), monthly_rent |-> 2,
     rent_cycle |-> "monthly"] }

NextSweep ==
  \/ \E i \in SweepInputs :
        AddTenant(i.room_number, i.start_date, i.monthly_rent, i.rent_cycle, TRUE)
  \/ Tick
  \/ \E p \in SeqTasks : CallStep(p, {2}, PaymentDates, 1, {TRUE})
  \/ \E p \in Tasks \ SeqTasks, failed \in SUBSET TenantIds : HB_Run(p, failed)
  \/ \E p \in Tasks \ SeqTasks : HB_Return(p)

SpecSweep == Init /\ [][NextSweep]_vars

\* SpecContract: the contract pass of runSystemHeartbeat applied once to a
\* tenant whose contract_end_date is absent or a day from ContractSpan days
\* before Today0 to ContractSpan days beyond the default lead window, with
\* contract_reminder_days unset (0) or 2, at any time of Today0
DefaultContractReminderDays == 60
ContractSpan == 2

\* contractEnd <= addDays(today, settings.contract_reminder_days || 60) &&
\* contractEnd >= today, today being new Date() with its time of day; a
\* tenant without contract_end_date is skipped
ContractAlertDue(contractEndDate, contractReminderDays, today) ==
  /\ contractEndDate # NoDate
  /\ parseISO(contractEndDate)
       <= addDays(today, IF contractReminderDays = 0
                           THEN DefaultContractReminderDays
                           ELSE contractReminderDays)
  /\ parseISO(contractEndDate) >= today

InitContract ==
  /\ db = EmptyDb
  /\ snap = EmptyDb
  /\ inTxn = FALSE
  /\ now \in parseISO(Today0)..(parseISO(Today0) + UnitsPerDay - 1)
  /\ pc = [q \in Tasks |-> "idle"]
  /\ \E d \in ((Today0 - ContractSpan)
                  ..(Today0 + DefaultContractReminderDays + ContractSpan))
                \cup {NoDate},
        n \in {0, 2} :
       loc = [q \in Tasks |->
                IF q \in SeqTasks
                  THEN [op |-> "contractPass", contract_end_date |-> d,
                        contract_reminder_days |-> n, contractAlerts |-> NoDate]
                  ELSE NoLoc]
  /\ hist = NoHist
  /\ epi = NoEpi
  /\ edits = 0
  /\ races = 0

\* results.contractAlerts.push(alertMsg): the number of alerts for the tenant
ContractPass(p) ==
  /\ loc[p].op = "contractPass"
  /\ loc[p].contractAlerts = NoDate
  /\ loc' = [loc EXCEPT ![p].contractAlerts =
               IF ContractAlertDue(loc[p].contract_end_date,
                                   loc[p].contract_reminder_days, now)
                 THEN 1 ELSE 0]
  /\ UNCHANGED <<db, snap, inTxn, now, pc, hist, epi, edits, races>>

NextContract == \E p \in SeqTasks : ContractPass(p)

SpecContract == InitContract /\ [][NextContract]_vars

(***************************************************************************)
(* Properties.                                                             *)
(***************************************************************************)
\* C1: whenever no operation is in flight, every tenant has
\* 0 <= credit_balance < monthly_rent
C1_CreditWithinRent ==
  Quiescent =>
    \A t \in DOMAIN db.tenants :
      /\ 0 <= db.tenants[t].credit_balance
      /\ db.tenants[t].credit_balance < db.tenants[t].monthly_rent

\* C2: a recordPayment that fails after its BEGIN TRANSACTION succeeded
\* (tenant not found, or a failing INSERT, UPDATE or COMMIT) leaves the
\* ledger as it found it: no new payment row, the tenant row unchanged
C2_FailedRecordPaymentRollsBack ==
  (hist.op = "recordPayment" /\ ~hist.ok /\ hist.began) =>
    /\ hist.same
    /\ hist.pid # 0 => hist.pid \notin DOMAIN db.payments

\* a recordPayment failed after it had inserted its payment row
C2_Witness ==
  /\ hist.op = "recordPayment" /\ ~hist.ok /\ hist.began
  /\ hist.pid # 0
  /\ hist.tid \in DOMAIN db.tenants

\* C3: when the mutating calls that were in flight together (two
\* recordPayment, or a recordPayment and a cancelPayment, interleaved at
\* their awaits) have all returned, each has left all of its ledger writes or
\* none, and the ledger is what running them one after the other in some
\* order leaves
C3_ConcurrentCallsSerialize == hist.serial

\* C4: a successful recordPayment immediately followed by a successful
\* cancelPayment of that payment leaves the tenant's credit_balance, status
\* and current next due date as they were before the payment
C4_CancelRestoresTenant ==
  (hist.op = "cancelPayment" /\ hist.ok /\ hist.recorded # NoLoc) =>
    /\ db.tenants[hist.tid].credit_balance = hist.recorded.before.credit_balance
    /\ db.tenants[hist.tid].status = hist.recorded.before.status
    /\ getTenantNextDueDate(db, hist.tid) = hist.recorded.dueBefore

\* C5: a cancelPayment of a payment that is not the tenant's most recent one
\* (by next_due_date descending, then id descending) fails and leaves the
\* ledger unchanged: no payment row deleted, no tenant field changed, no
\* cancellation record appended
C5_OnlyLastPaymentCancellable ==
  (hist.op = "cancelPayment" /\ ~hist.wasLast) =>
    /\ ~hist.ok
    /\ hist.same
    /\ hist.pid \in DOMAIN db.payments

\* a cancelPayment of the older of a tenant's two payments has failed
C5_Witness ==
  /\ hist.op = "cancelPayment" /\ ~hist.wasLast /\ ~hist.ok /\ hist.began
  /\ Cardinality(PaymentsOf(db, hist.tid)) = 2

\* C6: a reconciliation sweep that runs right after another one, with no
\* payment, cancellation, edit or passing of time in between, writes to no
\* tenant (no status update, no suspension)
C6_SecondSweepWritesNothing ==
  (hist.op = "runSystemHeartbeat" /\ hist.again) => hist.writes = 0

\* C7: a tenant whose stored status is Suspended is still Suspended after
\* every reconciliation sweep and status refresh (runSystemHeartbeat,
\* updateAllTenantStatuses), as long as no payment is recorded or cancelled
\* and the tenant is not edited
C7_SuspendedStaysSuspended ==
  [][hist'.op \in {"runSystemHeartbeat", "updateAllTenantStatuses"} =>
       \A t \in DOMAIN db.tenants :
         db.tenants[t].status = "Suspended" => db'.tenants[t].status = "Suspended"]_vars

\* C8: a sweep sets a tenant stored as Overdue to Suspended when the
\* tenant's next due date lies exactly auto_suspend_days + 1 whole days
\* before today, and does not when it lies exactly auto_suspend_days whole
\* days before today, at any time of the day
C8_SuspensionThreshold ==
  [][hist'.op = "runSystemHeartbeat" =>
       \A t \in DOMAIN db.tenants :
         db.tenants[t].status = "Overdue" =>
           /\ format(now) - getTenantNextDueDate(db, t) = AutoSuspendDays(db) + 1
                => db'.tenants[t].status = "Suspended"
           /\ format(now) - getTenantNextDueDate(db, t) = AutoSuspendDays(db)
                => db'.tenants[t].status # "Suspended"]_vars

\* C9: a successful recordPayment stores floor(total / monthly_rent) cycles
\* on its payment row and sets credit_balance to total mod monthly_rent,
\* where total = amount_paid + the credit_balance before the payment, so
\* that cycles * monthly_rent + new credit_balance = total
C9_AllocationArithmetic ==
  (hist.op = "recordPayment" /\ hist.ok) =>
    /\ hist.pid \in DOMAIN db.payments
    /\ db.payments[hist.pid].amount_paid = hist.amount
    /\ db.payments[hist.pid].months_paid_for =
         (hist.amount + hist.before.credit_balance) \div hist.before.monthly_rent
    /\ db.tenants[hist.tid].credit_balance =
         (hist.amount + hist.before.credit_balance) % hist.before.monthly_rent
    /\ db.payments[hist.pid].months_paid_for * hist.before.monthly_rent
         + db.tenants[hist.tid].credit_balance
       = hist.amount + hist.before.credit_balance

\* a payment that, together with the credit the tenant had, covered at least
\* one cycle and left a credit
C9_Witness ==
  /\ hist.op = "recordPayment" /\ hist.ok
  /\ hist.before.credit_balance > 0
  /\ db.payments[hist.pid].months_paid_for >= 1
  /\ db.tenants[hist.tid].credit_balance > 0

\* C10: a successful recordPayment that covers k >= 1 full cycles moves the
\* tenant's current next due date (the one the ledger yields just before the
\* payment, also for a tenant without payments) forward by exactly k
\* applications of calculateNextDueDate
C10_DueDateAdvancesByCycles ==
  (/\ hist.op = "recordPayment" /\ hist.ok
   /\ hist.pid \in DOMAIN db.payments
   /\ db.payments[hist.pid].months_paid_for >= 1) =>
    getTenantNextDueDate(db, hist.tid) =
      format(AdvanceCycles(parseISO(hist.dueBefore), hist.before.rent_cycle,
                           db.payments[hist.pid].months_paid_for))

\* C11: a successful recordPayment whose amount plus the tenant's prior
\* credit is below monthly_rent stores 0 cycles on its payment row, raises
\* credit_balance by exactly the amount, leaves the tenant's current next
\* due date as it was, and sets the status to Paid only where the
\* classifier yields Paid for that unchanged due date
C11_PartialPaymentKeepsDueDate ==
  (/\ hist.op = "recordPayment" /\ hist.ok
   /\ hist.pid \in DOMAIN db.payments
   /\ hist.amount > 0
   /\ hist.amount + hist.before.credit_balance < hist.before.monthly_rent) =>
    /\ db.payments[hist.pid].months_paid_for = 0
    /\ db.tenants[hist.tid].credit_balance =
         hist.before.credit_balance + hist.amount
    /\ getTenantNextDueDate(db, hist.tid) = hist.dueBefore
    /\ db.tenants[hist.tid].status = "Paid" =>
         calculateTenantStatus(hist.dueBefore, TRUE, now) = "Paid"

\* the store as it was before the recordPayment that hist describes
StoreBefore ==
  [db EXCEPT !.payments = Drop(@, hist.pid),
             !.tenants = Put(@, hist.tid, hist.before)]

\* store d with the payment dates replaced by those of f
Redated(d, f) ==
  [d EXCEPT !.payments =
     [i \in DOMAIN d.payments |-> [d.payments[i] EXCEPT !.payment_date = f[i]]]]

\* C12: a recordPayment is accepted and gives its payment the same
\* cycles_covered and next_due_date, and the tenant the same credit_balance,
\* as the same call gives on a ledger that differs only in the payment_date
\* values of the earlier payments (whatever their order)
C12_PaymentDatesDoNotMatter ==
  (/\ hist.op = "recordPayment" /\ hist.began
   /\ hist.tid \in DOMAIN db.tenants) =>
    /\ hist.ok /\ hist.pid \in DOMAIN db.payments
    /\ \A f \in [DOMAIN StoreBefore.payments -> LedgerDates] :
         /\ Allocation(Redated(StoreBefore, f), hist.tid, hist.amount).nextDueDateStr
              = db.payments[hist.pid].next_due_date
         /\ Allocation(Redated(StoreBefore, f), hist.tid, hist.amount).fullCyclesCovered
              = db.payments[hist.pid].months_paid_for
         /\ Allocation(Redated(StoreBefore, f), hist.tid, hist.amount).newCreditBalance
              = db.tenants[hist.tid].credit_balance

\* C13: the date a recordPayment counts its cycles from is the next_due_date
\* of the tenant's payment that is greatest by (next_due_date, payment id),
\* or start_date when the tenant has no payment: the row it writes has that
\* date advanced by the row's cycles
C13_BaseIsLatestDueDate ==
  (/\ hist.op = "recordPayment" /\ hist.ok
   /\ hist.pid \in DOMAIN db.payments) =>
    db.payments[hist.pid].next_due_date =
      format(AdvanceCycles(
        parseISO(IF PaymentsOf(StoreBefore, hist.tid) = {}
                   THEN hist.before.start_date
                   ELSE StoreBefore.payments[
                          FirstByDueDate(StoreBefore, PaymentsOf(StoreBefore, hist.tid))
                        ].next_due_date),
        hist.before.rent_cycle, db.payments[hist.pid].months_paid_for))

\* C14: whenever no call is in flight, after recordPayment and cancelPayment
\* calls on tenants that were never edited, every tenant's credit_balance and
\* every remaining payment's next_due_date are the ones fixPaymentCalculations
\* recomputes from the remaining rows, so that it would change none of them
C14_LedgerMatchesReplay ==
  (Quiescent /\ edits = 0) =>
    /\ \A t \in DOMAIN db.tenants :
         fixPaymentCalculations(db, now).tenants[t].credit_balance
           = db.tenants[t].credit_balance
    /\ \A i \in DOMAIN db.payments :
         fixPaymentCalculations(db, now).payments[i].next_due_date
           = db.payments[i].next_due_date

Classified == loc[1].op = "calculateTenantStatus" /\ loc[1].status # "none"

\* next_due_date minus today, in whole calendar days
DaysUntilDue == loc[1].nextDueDate - format(now)

C16_BadDateFailsClosed ==
  (Classified /\ loc[1].nextDueDate \in {NoDate, BadDate}) =>
    loc[1].status = IF loc[1].hasPayments THEN "Overdue" ELSE "Due Soon"

\* C17: a recordPayment with amount_paid <= 0 does not return normally and
\* leaves the ledger as it was when the call began: no payment row is
\* written, credit_balance and status are unchanged
C17_NonPositiveAmountRejected ==
  (hist.op = "recordPayment" /\ hist.began /\ hist.amount <= 0) =>
    ~hist.ok /\ hist.same

\* C18: no two tenants ever have the same room_number, also when addTenant
\* and updateTenant calls interleave; an addTenant whose room is in use when
\* it is called, and an updateTenant of a tenant to a room that is in use by
\* another tenant, throw and write nothing
C18_RoomNumbersUnique ==
  /\ \A t1 \in DOMAIN db.tenants, t2 \in DOMAIN db.tenants :
       t1 # t2 => db.tenants[t1].room_number # db.tenants[t2].room_number
  /\ (hist.op \in {"addTenant", "updateTenant"} /\ hist.conflict) =>
       ~hist.ok /\ hist.same

\* two calls passed the room check for the same room, one wrote it, and the
\* write of the other was refused
C18_Witness ==
  /\ hist.op = "addTenant" /\ ~hist.ok /\ hist.raced
  /\ \E t \in DOMAIN db.tenants : db.tenants[t].room_number = "A"

\* C19: after a deleteTenant that returned normally no payment row and no
\* reminder row of that tenant is left, and the rows of the other tenants
\* are as they were
C19_DeleteTenantCascades ==
  (hist.op = "deleteTenant" /\ hist.ok) =>
    /\ \A i \in DOMAIN db.payments : db.payments[i].tenant_id # hist.tid
    /\ \A i \in DOMAIN db.reminders : db.reminders[i].tenant_id # hist.tid
    /\ hist.same

\* C21: a recordPayment call asks the Reminder Gateway (cancelReminders,
\* createReminder) only when its transaction has been committed, and a call
\* that goes on to roll its transaction back has left the reminders as they
\* were when the transaction began
C21_RemindersOnlyAfterCommit ==
  \A p \in SeqTasks :
    /\ pc[p] = "rp_remind" => ~inTxn
    /\ (pc[p] = "rp_rollback" /\ inTxn) => db.reminders = snap.reminders

C23_PaymentRowsImmutable ==
  [][\A i \in DOMAIN db.payments :
       IF i \in DOMAIN db'.payments
         THEN db'.payments[i] = db.payments[i]
         ELSE \/ /\ hist'.op = "deleteTenant"
                 /\ hist'.tid = db.payments[i].tenant_id
              \/ \E p \in SeqTasks :
                   /\ pc[p] = "cp_delete"
                   /\ loc[p].paymentId = i
                   /\ \/ \A j \in PaymentsOf(db, db.payments[i].tenant_id) : j <= i
                      \/ FirstByPaymentDate(db, PaymentsOf(db, db.payments[i].tenant_id)) = i
                      \/ NewerPayments(db, i) = {}]_vars

\* C24: calculateNextDueDate returns a date for every base date and rent
\* cycle; for biweekly it is the same time of day 14 days later; for monthly
\* and quarterly it is the same time of day in the month 1 or 3 calendar
\* months later, on the base date's day of the month or, when that month is
\* shorter, on its last day, and never in the month after it
C24_CycleCalculator ==
  \A p \in SeqTasks :
    (loc[p] # NoLoc /\ loc[p].op = "calculateNextDueDate" /\ loc[p].result # NoDate) =>
      LET base   == Civil(loc[p].baseDate \div UnitsPerDay)
          next   == Civil(loc[p].result \div UnitsPerDay)
          months == IF loc[p].rentCycle = "quarterly" THEN 3 ELSE 1
          target == (base.y * 12 + (base.m - 1)) + months
      IN /\ loc[p].result % UnitsPerDay = loc[p].baseDate % UnitsPerDay
         /\ IF loc[p].rentCycle = "biweekly"
              THEN loc[p].result = loc[p].baseDate + 14 * UnitsPerDay
              ELSE /\ next.y * 12 + (next.m - 1) = target
                   /\ next.d = Min(base.d, DaysInMonth(next.y, next.m))

\* 2024-01-31 plus one month is 2024-02-29, and 2024-11-30 plus three
\* months is 2025-02-28
C24_Witness ==
  \E p \in SeqTasks :
    /\ loc[p] # NoLoc
    /\ loc[p].op = "calculateNextDueDate"
    /\ \/ /\ loc[p].rentCycle = "monthly"
          /\ loc[p].baseDate \div UnitsPerDay = YMD(2024, 1, 31)
          /\ loc[p].result \div UnitsPerDay = YMD(2024, 2, 29)
       \/ /\ loc[p].rentCycle = "quarterly"
          /\ loc[p].baseDate \div UnitsPerDay = YMD(2024, 11, 30)
          /\ loc[p].result \div UnitsPerDay = YMD(2025, 2, 28)

\* C25: every tenant row has monthly_rent > 0, whatever rents addTenant and
\* updateTenant were called with
C25_RentAlwaysPositive ==
  \A t \in DOMAIN db.tenants : db.tenants[t].monthly_rent > 0

\* C26: when a cancelPayment of payment p commits, the payments table is the
\* one of its BEGIN without the row p, the tenant's credit_balance is
\* max(0, credit_balance before - p.amount_paid), and the tenant's status is
\* the classification of the due date that a sweep derives from the payments
\* that remain (the first due date from start_date, classified without
\* payment history, when none remains)
C26_CancelRestoresTenant ==
  [][(hist'.op = "cancelPayment" /\ hist'.ok /\ inTxn /\ ~inTxn') =>
       LET p == hist'.pid
           t == hist'.tid
       IN /\ p \in DOMAIN snap.payments
          /\ db'.payments = Drop(snap.payments, p)
          /\ db'.tenants[t].credit_balance
               = Max(0, snap.tenants[t].credit_balance - snap.payments[p].amount_paid)
          /\ db'.tenants[t].status
               = calculateTenantStatus(getTenantNextDueDate(db', t),
                                       PaymentsOf(db', t) # {}, now)]_vars

\* C27: the committed payment_cancellations table only grows, and only by a
\* cancelPayment that succeeds: such a call appends one record with the
\* cancelled payment's id, tenant, amount and the reason given; a
\* cancelPayment that fails, and every other operation (deleteTenant,
\* fixPaymentCalculations, recordPayment, addTenant, updateTenant), leaves
\* the table as it was
C27_CancellationsAppendOnly ==
  [][LET before == IF inTxn THEN snap ELSE db
         after  == IF inTxn' THEN snap' ELSE db'
     IN IF hist'.op = "cancelPayment" /\ hist'.ok /\ hist # hist'
          THEN /\ hist'.pid \in DOMAIN before.payments
               /\ after.payment_cancellations =
                    Append(before.payment_cancellations,
                           [ original_payment_id |-> hist'.pid,
                             tenant_id |-> before.payments[hist'.pid].tenant_id,
                             amount |-> before.payments[hist'.pid].amount_paid,
                             reason |-> "reason" ])
          ELSE after.payment_cancellations = before.payment_cancellations]_vars

\* C28: a runSystemHeartbeat leaves Suspended every tenant that its
\* reclassification pass makes or leaves Overdue and whose next due date lies
\* more than auto_suspend_days calendar days back, and leaves no tenant Suspended that
\* is not Overdue after the reclassification pass
C28_SuspensionSeesReclassification ==
  [][hist'.op = "runSystemHeartbeat" =>
       \A t \in DOMAIN db.tenants :
         IF RefreshedStatus(db, t, now) = "Overdue"
           THEN format(now) - getTenantNextDueDate(db, t) > AutoSuspendDays(db)
                  => db'.tenants[t].status = "Suspended"
           ELSE db'.tenants[t].status # "Suspended"]_vars

\* C29: right after a successful recordPayment the tenant's stored status is
\* the classification, with payment history, of the tenant's current next
\* due date (the one a sweep derives from the payment rows), and when the
\* payment covered at least one cycle the status is Paid exactly when that
\* due date is more than PaidLeadDays days after today
C29_StatusAfterPayment ==
  (hist.op = "recordPayment" /\ hist.ok /\ hist.tid \in DOMAIN db.tenants) =>
    /\ db.tenants[hist.tid].status
         = calculateTenantStatus(getTenantNextDueDate(db, hist.tid), TRUE, now)
    /\ db.payments[hist.pid].months_paid_for >= 1 =>
         (db.tenants[hist.tid].status = "Paid"
            <=> getTenantNextDueDate(db, hist.tid) - format(now) > PaidLeadDays)

\* C30: when no call is in flight and no transaction is open, a tenant
\* without payment rows is not stored as Paid (it is Due Soon, Overdue or
\* Suspended)
C30_NoPaymentsNeverPaid ==
  (Quiescent /\ ~inTxn) =>
    \A t \in DOMAIN db.tenants :
      PaymentsOf(db, t) = {} => db.tenants[t].status \in {"Due Soon", "Overdue", "Suspended"}

\* C31: the contract pass of a sweep emits one alert for a tenant whose
\* contract_end_date d satisfies today <= d <= today + contract_reminder_days
\* in calendar days (a contract ending today included), and none for a
\* tenant whose contract_end_date is absent, past or beyond the window
C31_ContractAlertWindow ==
  \A p \in SeqTasks :
    (loc[p] # NoLoc /\ loc[p].op = "contractPass" /\ loc[p].contractAlerts # NoDate) =>
      LET d    == loc[p].contract_end_date
          lead == IF loc[p].contract_reminder_days = 0
                    THEN DefaultContractReminderDays
                    ELSE loc[p].contract_reminder_days
      IN loc[p].contractAlerts =
           IF d # NoDate /\ format(now) <= d /\ d <= format(now) + lead
             THEN 1 ELSE 0

\* C32: a runSystemHeartbeat in which an UPDATE throws leaves every tenant's
\* status as it was before the sweep
C32_FailedSweepRollsBack ==
  [][\A p \in Tasks \ SeqTasks :
       (loc[p] = NoLoc /\ loc'[p] # NoLoc /\ loc'[p].op = "runSystemHeartbeat"
          /\ loc'[p].threw)
       => db'.tenants = db.tenants]_vars

\* C33: when a recordPayment or cancelPayment rolls its transaction back
\* after a sweep has run inside it, every tenant that the sweep counted in
\* statusUpdates still has the status the sweep computed for it, unless the
\* status was already that one before the sweep
C33_SweepSummaryPersisted ==
  [][\A p \in Tasks \ SeqTasks, q \in SeqTasks :
       (/\ pc[q] \in {"rp_rollback", "cp_rollback"}
        /\ inTxn /\ ~inTxn'
        /\ loc[p] # NoLoc
        /\ loc[p].op = "runSystemHeartbeat"
        /\ loc[p].inTxn)
       => \A t \in loc[p].statusUpdates :
            /\ t \in DOMAIN db'.tenants
            /\ db'.tenants[t].status = db.tenants[t].status]_vars

\* C34: no recordPayment call enters a cycle-advance loop without a finite
\* bound: after its reads every call goes on to its INSERT or throws, and so
\* ends in COMMIT or ROLLBACK, whatever rent updateTenant has stored
C34_CycleLoopIsFinite ==
  \A p \in SeqTasks : pc[p] # "rp_loop"

\* C35: when two payments a and b of one tenant have been recorded one
\* right after the other, the tenant's credit_balance and current next due
\* date are those that a single payment of a + b, recorded on the store as
\* it was before a, would have left, and the months_paid_for of the two rows
\* sum to the months_paid_for of that single payment
C35_SplitPaymentAddsUp ==
  (/\ hist.op = "recordPayment" /\ hist.ok
   /\ hist.pid - 1 \in DOMAIN db.payments
   /\ db.payments[hist.pid - 1].tenant_id = hist.tid) =>
     LET t    == hist.tid
         r1   == db.payments[hist.pid - 1]
         r2   == db.payments[hist.pid]
         c0   == r1.months_paid_for * db.tenants[t].monthly_rent
                   + hist.before.credit_balance - r1.amount_paid
         d0   == [db EXCEPT !.payments = Drop(Drop(@, hist.pid), hist.pid - 1),
                            !.seqPayments = hist.pid - 2,
                            !.tenants[t].credit_balance = c0]
         one  == RecordPaymentTxn(d0, now,
                   [ op |-> "recordPayment", tenantId |-> t,
                     amountPaid |-> r1.amount_paid + r2.amount_paid,
                     paymentDate |-> r2.payment_date, paymentId |-> 0 ])
     IN /\ c0 >= 0
        /\ db.tenants[t].credit_balance = one.tenants[t].credit_balance
        /\ getTenantNextDueDate(db, t) = getTenantNextDueDate(one, t)
        /\ r1.months_paid_for + r2.months_paid_for
             = one.payments[hist.pid - 1].months_paid_for

\* a first payment that covers no cycle and a second one that, with the
\* credit the first one left, covers a cycle for the tenant who started on
\* the 31st
C35_Witness ==
  /\ hist.op = "recordPayment" /\ hist.ok
  /\ hist.pid - 1 \in DOMAIN db.payments
  /\ db.payments[hist.pid - 1].tenant_id = hist.tid
  /\ db.tenants[hist.tid].start_date = YMD(2024, 1, 31)
  /\ db.payments[hist.pid - 1].months_paid_for = 0
  /\ db.payments[hist.pid].months_paid_for >= 1

\* C36: right after a successful recordPayment or cancelPayment (every
\* Reminder Gateway call of it having succeeded) the tenant has at most one
\* Pending reminder, and the due_date of that reminder is the tenant's
\* current next due date
C36_OnePendingReminderForDueDate ==
  (hist.op \in {"recordPayment", "cancelPayment"} /\ hist.ok
     /\ hist.tid \in DOMAIN db.tenants) =>
    LET pending == {i \in DOMAIN db.reminders :
                      /\ db.reminders[i].tenant_id = hist.tid
                      /\ db.reminders[i].status = "Pending"}
    IN /\ Cardinality(pending) <= 1
       /\ \A i \in pending :
            db.reminders[i].due_date = getTenantNextDueDate(db, hist.tid)

\* C37: initializeDatabase calls share one in-flight initialization (no two
\* closures are running at once); the schema, migration and seed block
\* commits at most once, and no attempt is started after one succeeded; a
\* call made after a failed attempt is not handed the rejected promise of
\* that attempt but starts a fresh one; and after a successful
\* initialization the settings table holds exactly one row
C37_SharedInitialization ==
  LET ids     == DOMAIN epi.promises
      settled == {"fulfilled", "rejected"}
  IN /\ Cardinality({i \in ids : epi.promises[i] \notin settled}) <= 1
     /\ \A i \in ids :
          epi.promises[i] = "fulfilled" => i = Len(epi.promises)
     /\ \A p \in Tasks :
          pc[p] = "awaiting" => loc[p].handedAs # "rejected"
     /\ (\E i \in ids : epi.promises[i] = "fulfilled") => Len(db.settings) = 1

====
